---- MODULE Spec2Model ----
(***************************************************************************)
(* Model of the SSO device-authorization login of thief:                   *)
(*   cmd/sso.go            login, getToken, openBrowser, saveCacheFile     *)
(*   internal/aws/sso_oidc.go   WaitForToken and the broker wrappers       *)
(* One run of the command line tool is a sequence of steps, one per call   *)
(* the code makes to the outside (broker, browser, clock, file system).    *)
(***************************************************************************)
EXTENDS Integers, Sequences, FiniteSets, TLC

(***************************************************************************)
(* Bounds of the model                                                     *)
(***************************************************************************)
\* runs of the tool (or direct calls of WaitForToken) in one behaviour
MaxRuns == 2
\* calls of WaitForToken one direct caller makes in its process
MaxCalls == 2
\* largest polling interval (seconds) the broker returns; 0 is "absent"
MaxBrokerInterval == 2

(***************************************************************************)
(* Program constants                                                       *)
(***************************************************************************)
\* sso_oidc.go:90   maxAttempts := 10
maxAttempts == 10
\* sso_oidc.go:91   interval := 1 * time.Second   (seconds)
initialInterval == 1
\* sso.go:407   os.MkdirAll(cacheDir, 0700)
DirPerm == 448
\* sso.go:419   os.WriteFile(cacheFile, jsonData, 0600)
FilePerm == 384

(***************************************************************************)
(* Errors.  An error value is what errors.Is can see of it: its concrete   *)
(* type (kind), its address, and the target types its own Is method, if it *)
(* has one, reports a match for.  The exception types of the broker SDK    *)
(* have no Is method.                                                      *)
(***************************************************************************)
NoErr == [kind |-> "nil", addr |-> 0, is |-> {}]

SdkErr(kind) == [kind |-> kind, addr |-> 1, is |-> {}]

CustomErr(matches) == [kind |-> "custom", addr |-> 1, is |-> matches]

\* &types.SlowDownException{} / &types.AuthorizationPendingException{}:
\* a freshly allocated value, whose address no returned error has
NewTarget(type) == [kind |-> type, addr |-> 2, is |-> {}]

\* errors.Is(err, target) for a pointer target: identity, or err's Is method
errorsIs(err, target) == err.addr = target.addr \/ target.kind \in err.is

\* the errors CreateToken returns during a device authorization
PendingErr == SdkErr("AuthorizationPendingException")
SlowDownErr == SdkErr("SlowDownException")
ExpiredErr == SdkErr("ExpiredTokenException")
DeniedErr == SdkErr("AccessDeniedException")
CanceledErr == SdkErr("context canceled")

TerminalErrs == {ExpiredErr, DeniedErr}

\* errors of an implementation of ssoOidcApi whose error type has an Is method
CustomErrs == {CustomErr({"SlowDownException"}),
               CustomErr({"SlowDownException", "AuthorizationPendingException"})}

(***************************************************************************)
(* Inputs                                                                  *)
(***************************************************************************)
UrlFlags == {"", "example", "corp"}
Region == "ap-northeast-1"

\* fmt.Sprintf("https://%s.awsapps.com/start/", url)
StartUrlOf(url) == "https://" \o url \o ".awsapps.com/start/"

RegisterOutputs == {[ClientId |-> "client-1", ClientSecret |-> "secret-1",
                     ClientSecretExpiresAt |-> 1700086400],
                    [ClientId |-> "client-2", ClientSecret |-> "secret-2",
                     ClientSecretExpiresAt |-> 1709251200]}

DeviceAuths == {[DeviceCode |-> "D1", UserCode |-> "ABCD-1234", Interval |-> n] :
                n \in 0..MaxBrokerInterval}

TokenOutputs == {[AccessToken |-> "T1", ExpiresIn |-> 3600],
                 [AccessToken |-> "T2", ExpiresIn |-> 28800]}

\* time.Now() at the return of WaitForToken (epoch seconds)
Times == {1700000000}

NoOutput == [AccessToken |-> "", ExpiresIn |-> 0]

NoRegister == [ClientId |-> "", ClientSecret |-> "", ClientSecretExpiresAt |-> 0]
NoDeviceAuth == [DeviceCode |-> "", UserCode |-> "", Interval |-> 0]
NoCache == [StartURL |-> "", Region |-> "", AccessToken |-> "", ExpiresAt |-> <<>>,
            ClientID |-> "", ClientSecret |-> "", RegistrationExpiresAt |-> <<>>]

(***************************************************************************)
(* time.Unix(sec, 0).UTC().Format(time.RFC3339): the fields of             *)
(* "2006-01-02T15:04:05Z" as <<year, month, day, hour, minute, second>>    *)
(***************************************************************************)
CivilFromDays(days) ==
    LET z   == days + 719468
        era == z \div 146097
        doe == z - era * 146097
        yoe == (doe - doe \div 1460 + doe \div 36524 - doe \div 146096) \div 365
        doy == doe - (365 * yoe + yoe \div 4 - yoe \div 100)
        mp  == (5 * doy + 2) \div 153
        d   == doy - (153 * mp + 2) \div 5 + 1
        m   == IF mp < 10 THEN mp + 3 ELSE mp - 9
        y   == yoe + era * 400 + (IF m <= 2 THEN 1 ELSE 0)
    IN  <<y, m, d>>

FormatRFC3339(sec) ==
    LET date == CivilFromDays(sec \div 86400)
        rem  == sec % 86400
    IN  <<date[1], date[2], date[3], rem \div 3600, (rem % 3600) \div 60, rem % 60>>

(***************************************************************************)
(* generateCacheKey: hex(sha1(startUrl)), tabulated for the start URLs of  *)
(* the model                                                               *)
(***************************************************************************)
\* the digest taken before the key is written to the hasher: sha1 of no input
generateCacheKeyOfNothing(cacheKey) == "da39a3ee5e6b4b0d3255bfef95601890afd80709"

generateCacheKey(cacheKey) ==
    CASE cacheKey = "https://example.awsapps.com/start/" ->
             "8be3a7791abdeea628d9fbf768cc17b92db6f738"
      [] cacheKey = "https://corp.awsapps.com/start/" ->
             "21d83a90f8cda0e9d684457da289f57c42db0dd8"

\* filepath.Join(cacheDir, cacheKey+".json"), relative to the cache directory
CacheFileName(url) == generateCacheKey(url) \o ".json"

(***************************************************************************)
(* The cache directory ~/.aws/sso/cache before the tool first runs         *)
(***************************************************************************)
ForeignFile == "botocore-client-id.json"

NoDir == [exists |-> FALSE, mode |-> 0, files |-> <<>>]

InitialFs == {NoDir,
              [exists |-> TRUE, mode |-> 493,
               files |-> (ForeignFile :> [data |-> NoCache, mode |-> 420])]}

(***************************************************************************)
(* State                                                                   *)
(***************************************************************************)
VARIABLES
    pc,             \* where the running command is
    cmd,            \* "none", "login", or "WaitForToken" (called directly)
    runs,           \* commands started so far
    wfCalls,        \* calls of WaitForToken made in this process
    startUrl,       \* login: startUrl
    registerOutput, \* getToken: registerOutput
    deviceAuth,     \* getToken: deviceAuth
    browser,        \* result of openBrowser: "none", "ok", "err"
    displayed,      \* loginDisplay has printed the URL and the user code
    ctx,            \* WaitForToken: ctx, "background", "live" or "done"
    i,              \* WaitForToken: i
    interval,       \* WaitForToken: interval (seconds)
    lastResp,       \* what the last api.CreateToken call returned
    prevInterval,   \* interval when the last api.CreateToken call was made
    slept,          \* duration of the last time.Sleep, 0 before the first
    obs,            \* what has been observed of this run: the calls made, by
                    \* step; the CreateToken calls that returned no error;
                    \* whether all of them returned a pending or slow-down
                    \* exception; whether one was made after the context was
                    \* done; whether the context was done during a sleep
    wfResult,       \* what WaitForToken returned
    lastInterval,   \* interval at the last return of WaitForToken in this process
    cache,          \* getToken: the *SSOTokenCache returned
    fs,             \* the cache directory
    fsAtStart,      \* the cache directory when the command started
    runErr,         \* the error the command returned, "" for nil
    cacheOps,       \* logout and saveCacheFile called one after another: the
                    \* last call, and the entries saved since the last
                    \* successful logout
    cfgSys,         \* ~/.aws/config and the generateConfig runs working on it
    race,           \* a cache file and the saveCacheFile calls writing it
                    \* at the same time
    gen,            \* one generateConfig run from its prompts on: standard
                    \* input, the accounts and roles listed, the selections
                    \* parsed and the profiles built
    listing,        \* a call of one of the wrappers of internal/aws and the
                    \* calls it makes to the api
    selector,       \* util.Select: the model of the list selector
    digestClient    \* a tidb.DigestClient and the Get call it is running

\* the state of one login run
runVars == <<pc, cmd, runs, wfCalls, startUrl, registerOutput, deviceAuth, browser,
             displayed, ctx, i, interval, lastResp, prevInterval, slept, obs,
             wfResult, lastInterval, cache, fsAtStart, runErr>>

\* the state outside the login run
extVars == <<cacheOps, cfgSys, race, gen, listing, selector, digestClient>>

\* the state of the other commands and packages
otherVars == <<gen, listing, selector, digestClient>>

vars == <<pc, cmd, runs, wfCalls, startUrl, registerOutput, deviceAuth, browser, displayed,
          ctx, i, interval, lastResp, prevInterval, slept, obs, wfResult,
          lastInterval, cache, fs, fsAtStart, runErr, cacheOps, cfgSys, race,
          gen, listing, selector, digestClient>>

NoCacheOps == [op |-> "none", err |-> "", before |-> NoDir, purged |-> FALSE,
               saved |-> <<>>]
NoCfgSys == [dir |-> FALSE, file |-> [exists |-> FALSE, content |-> <<>>, mode |-> 0],
             procs |-> <<>>]
NoRace == [content |-> <<>>, procs |-> <<>>]
NoGen == [pc |-> "none"]
NoListing == [pc |-> "none"]
NoSelector == [pc |-> "none"]
NoDigestClient == [pc |-> "none"]

\* nothing of the other commands and packages is running
OtherInit ==
    /\ gen = NoGen
    /\ listing = NoListing
    /\ selector = NoSelector
    /\ digestClient = NoDigestClient

NoResp == [output |-> NoOutput, err |-> NoErr]
NoObs == [register |-> 0, startAuth |-> 0, createToken |-> 0, succeeded |-> 0,
          onlyRetry |-> TRUE, afterCancel |-> FALSE, save |-> 0,
          cancelledInSleep |-> FALSE]
NotReturned == [returned |-> FALSE, output |-> NoOutput, err |-> ""]

\* no command is running
RunInit ==
    /\ pc = "idle"
    /\ cmd = "none"
    /\ runs = 0
    /\ wfCalls = 0
    /\ startUrl = ""
    /\ registerOutput = NoRegister
    /\ deviceAuth = NoDeviceAuth
    /\ browser = "none"
    /\ displayed = FALSE
    /\ ctx = "background"
    /\ i = 0
    /\ interval = 0
    /\ lastResp = NoResp
    /\ prevInterval = 0
    /\ slept = 0
    /\ obs = NoObs
    /\ wfResult = NotReturned
    /\ lastInterval = 0
    /\ cache = NoCache
    /\ runErr = ""

Init ==
    /\ RunInit
    /\ fs \in InitialFs
    /\ fsAtStart = fs
    /\ cacheOps = NoCacheOps
    /\ cfgSys = NoCfgSys
    /\ race = NoRace
    /\ OtherInit

(***************************************************************************)
(* WaitForToken (sso_oidc.go:89-112)                                       *)
(***************************************************************************)
\* i and interval kept in package-level variables that no call initialises
WaitForTokenEntryCarried ==
    [i |-> 0, interval |-> IF lastInterval > 0 THEN lastInterval ELSE initialInterval]

\* the locals at entry: maxAttempts := 10 is a constant, i := 0, interval := 1s
WaitForTokenEntry == [i |-> 0, interval |-> initialInterval]

\* the loop condition written i <= maxAttempts
LoopContinuesOffByOne(n) == n <= maxAttempts

\* the loop condition i < maxAttempts
LoopContinues(n) == n < maxAttempts

\* the loop body with interval *= 2 outside the slow-down test
WaitForTokenBodyBackoffAlways(resp, ival) ==
    IF resp.err = NoErr
    THEN [ret |-> TRUE, output |-> resp.output, err |-> "", interval |-> ival]
    ELSE IF /\ errorsIs(resp.err, NewTarget("SlowDownException"))
            /\ errorsIs(resp.err, NewTarget("AuthorizationPendingException"))
    THEN [ret |-> TRUE, output |-> NoOutput, err |-> "token creation failed",
          interval |-> ival]
    ELSE [ret |-> FALSE, output |-> NoOutput, err |-> "", interval |-> ival * 2]

\* the loop body without the err == nil return
WaitForTokenBodyNoSuccessReturn(resp, ival) ==
    IF /\ errorsIs(resp.err, NewTarget("SlowDownException"))
       /\ errorsIs(resp.err, NewTarget("AuthorizationPendingException"))
    THEN [ret |-> TRUE, output |-> NoOutput, err |-> "token creation failed",
          interval |-> ival]
    ELSE [ret |-> FALSE, output |-> NoOutput, err |-> "",
          interval |-> IF errorsIs(resp.err, NewTarget("SlowDownException"))
                       THEN ival * 2 ELSE ival]

\* One pass of the loop body on the response resp of api.CreateToken, up to
\* the time.Sleep: whether WaitForToken returns, what it returns, and the
\* interval it sleeps for otherwise.
WaitForTokenBody(resp, ival) ==
    IF resp.err = NoErr
    THEN [ret |-> TRUE, output |-> resp.output, err |-> "", interval |-> ival]
    ELSE IF /\ errorsIs(resp.err, NewTarget("SlowDownException"))
            /\ errorsIs(resp.err, NewTarget("AuthorizationPendingException"))
    THEN [ret |-> TRUE, output |-> NoOutput, err |-> "token creation failed",
          interval |-> ival]
    ELSE [ret |-> FALSE, output |-> NoOutput, err |-> "",
          interval |-> IF errorsIs(resp.err, NewTarget("SlowDownException"))
                       THEN ival * 2 ELSE ival]

\* the return after the loop
TimeoutResult == [returned |-> TRUE, output |-> NoOutput,
                  err |-> "timeout waiting for authentication"]

\* what api.CreateToken may return: an output and no error, or an error;
\* once the context is done also the context's error
CreateTokenResponses ==
    {[output |-> o, err |-> NoErr] : o \in TokenOutputs}
    \cup {[output |-> NoOutput, err |-> e] :
             e \in {PendingErr, SlowDownErr} \cup TerminalErrs \cup CustomErrs
                   \cup (IF ctx = "done" THEN {CanceledErr} ELSE {})}

(***************************************************************************)
(* getToken (sso.go:320-371) and login (sso.go:82-105)                     *)
(***************************************************************************)
\* the expiry taken as the time of the login, the registration as that of
\* the first client
BuildCacheAtLogin(url, tokenOutput, reg, now) ==
    [StartURL |-> url,
     Region |-> Region,
     AccessToken |-> tokenOutput.AccessToken,
     ExpiresAt |-> FormatRFC3339(now),
     ClientID |-> reg.ClientId,
     ClientSecret |-> reg.ClientSecret,
     RegistrationExpiresAt |-> FormatRFC3339(1700086400)]

\* the *SSOTokenCache getToken builds from the token, at time now
BuildCache(url, tokenOutput, reg, now) ==
    [StartURL |-> url,
     Region |-> Region,
     AccessToken |-> tokenOutput.AccessToken,
     ExpiresAt |-> FormatRFC3339(now + tokenOutput.ExpiresIn),
     ClientID |-> reg.ClientId,
     ClientSecret |-> reg.ClientSecret,
     RegistrationExpiresAt |-> FormatRFC3339(reg.ClientSecretExpiresAt)]

\* login ignoring the error of getToken
SavesAlways(err) == TRUE

\* login after getToken: saveCacheFile runs only when getToken returned no error
SavesAfterGetToken(err) == err = ""

\* the caller's handling of what WaitForToken returned
ReturnFromWaitForToken(res) ==
    /\ wfResult' = res
    /\ lastInterval' = interval'
    /\ IF cmd = "login" /\ SavesAfterGetToken(res.err)
       THEN /\ \E now \in Times :
                 cache' = BuildCache(startUrl, res.output, registerOutput, now)
            /\ pc' = "save"
            /\ runErr' = ""
       ELSE /\ cache' = cache
            /\ pc' = "done"
            /\ runErr' = IF res.err = "" THEN ""
                         ELSE IF cmd = "login" THEN "get token: failed to get token"
                         ELSE res.err

\* login (sso.go:82-96): flags, start URL, and getToken up to the client
Login(url, clientOk) ==
    /\ pc = "idle"
    /\ runs < MaxRuns
    /\ runs' = runs + 1
    /\ cmd' = "login"
    /\ fsAtStart' = fs
    /\ IF url = ""
       THEN /\ pc' = "done"
            /\ runErr' = "please specify the AWS SSO access portal URL with --url flag"
            /\ startUrl' = ""
       ELSE /\ startUrl' = StartUrlOf(url)
            /\ IF clientOk
               THEN pc' = "register" /\ runErr' = ""
               ELSE pc' = "done" /\ runErr' = "get token: create SSO OIDC client"
    /\ UNCHANGED <<wfCalls, registerOutput, deviceAuth, browser, displayed, ctx, i,
                   interval, lastResp, prevInterval, slept, obs, wfResult,
                   lastInterval, cache, fs>>
    /\ UNCHANGED extVars

\* getToken (sso.go:331-337): aws.RegisterClient
RegisterClient(out, ok) ==
    /\ pc = "register"
    /\ obs' = [obs EXCEPT !.register = @ + 1]
    /\ IF ok
       THEN /\ registerOutput' = out
            /\ pc' = "startAuth"
            /\ runErr' = ""
       ELSE /\ registerOutput' = NoRegister
            /\ pc' = "done"
            /\ runErr' = "get token: failed to register client"
    /\ UNCHANGED <<cmd, runs, wfCalls, startUrl, deviceAuth, browser, displayed, ctx, i,
                   interval, lastResp, prevInterval, slept, wfResult, lastInterval,
                   cache, fs, fsAtStart>>
    /\ UNCHANGED extVars

\* getToken (sso.go:340-343): aws.StartDeviceAuthorization
StartDeviceAuthorization(out, ok) ==
    /\ pc = "startAuth"
    /\ obs' = [obs EXCEPT !.startAuth = @ + 1]
    /\ IF ok
       THEN /\ deviceAuth' = out
            /\ pc' = "browser"
            /\ runErr' = ""
       ELSE /\ deviceAuth' = NoDeviceAuth
            /\ pc' = "done"
            /\ runErr' = "get token: failed to start device authorization"
    /\ UNCHANGED <<cmd, runs, wfCalls, startUrl, registerOutput, browser, displayed, ctx, i,
                   interval, lastResp, prevInterval, slept, wfResult, lastInterval,
                   cache, fs, fsAtStart>>
    /\ UNCHANGED extVars

\* getToken (sso.go:345-355): openBrowser, loginDisplay, entry of WaitForToken
\* with context.Background()
OpenBrowser(ok) ==
    /\ pc = "browser"
    /\ IF ok
       THEN /\ browser' = "ok"
            /\ displayed' = TRUE
            /\ ctx' = "background"
            /\ i' = WaitForTokenEntry.i
            /\ interval' = WaitForTokenEntry.interval
            /\ wfCalls' = wfCalls + 1
            /\ pc' = "poll"
            /\ runErr' = ""
       ELSE /\ browser' = "err"
            /\ pc' = "done"
            /\ runErr' = "get token: failed to open browser"
            /\ UNCHANGED <<displayed, ctx, i, interval, wfCalls>>
    /\ UNCHANGED <<cmd, runs, startUrl, registerOutput, deviceAuth, lastResp,
                   prevInterval, slept, obs, wfResult, lastInterval, cache, fs,
                   fsAtStart>>
    /\ UNCHANGED extVars

\* a caller of WaitForToken with a context it can cancel or that has a
\* deadline (context.WithTimeout), which may call it again after it returned
CallWaitForToken ==
    /\ \/ pc = "idle" /\ runs < MaxRuns
       \/ pc = "done" /\ cmd = "WaitForToken" /\ wfCalls < MaxCalls
    /\ runs' = IF pc = "idle" THEN runs + 1 ELSE runs
    /\ wfCalls' = wfCalls + 1
    /\ cmd' = "WaitForToken"
    /\ ctx' = "live"
    /\ i' = WaitForTokenEntry.i
    /\ interval' = WaitForTokenEntry.interval
    /\ pc' = "poll"
    /\ lastResp' = NoResp
    /\ prevInterval' = 0
    /\ slept' = 0
    /\ obs' = NoObs
    /\ wfResult' = NotReturned
    /\ runErr' = ""
    /\ UNCHANGED <<startUrl, registerOutput, deviceAuth, browser, displayed,
                   lastInterval, cache, fs, fsAtStart>>
    /\ UNCHANGED extVars

\* WaitForToken (sso_oidc.go:94-108): api.CreateToken and the rest of the
\* loop body up to the start of time.Sleep
CreateToken(resp) ==
    /\ pc = "poll"
    /\ LET step == WaitForTokenBody(resp, interval) IN
       /\ lastResp' = resp
       /\ prevInterval' = interval
       /\ interval' = step.interval
       /\ obs' = [obs EXCEPT !.createToken = @ + 1,
                             !.succeeded = IF resp.err = NoErr THEN @ + 1 ELSE @,
                             !.onlyRetry = @ /\ resp.err \in {PendingErr, SlowDownErr},
                             !.afterCancel = @ \/ ctx = "done"]
       /\ IF step.ret
          THEN /\ ReturnFromWaitForToken([returned |-> TRUE, output |-> step.output,
                                          err |-> step.err])
               /\ slept' = slept
          ELSE /\ pc' = "sleep"
               /\ slept' = step.interval
               /\ UNCHANGED <<wfResult, lastInterval, cache, runErr>>
    /\ UNCHANGED <<cmd, runs, wfCalls, startUrl, registerOutput, deviceAuth, browser,
                   displayed, ctx, i, fs, fsAtStart>>
    /\ UNCHANGED extVars

\* WaitForToken (sso_oidc.go:108-111, 93): time.Sleep returns, i++, and the
\* loop condition; the return after the loop
SleepDone ==
    /\ pc = "sleep"
    /\ i' = i + 1
    /\ interval' = interval
    /\ IF LoopContinues(i + 1)
       THEN /\ pc' = "poll"
            /\ UNCHANGED <<wfResult, lastInterval, cache, runErr>>
       ELSE ReturnFromWaitForToken(TimeoutResult)
    /\ UNCHANGED <<cmd, runs, wfCalls, startUrl, registerOutput, deviceAuth, browser,
                   displayed, ctx, lastResp, prevInterval, slept, obs, fs, fsAtStart>>
    /\ UNCHANGED extVars

\* the caller's context is cancelled, or its deadline passes, while
\* WaitForToken runs
Cancel ==
    /\ pc \in {"poll", "sleep"}
    /\ ctx = "live"
    /\ ctx' = "done"
    /\ obs' = [obs EXCEPT !.cancelledInSleep = (pc = "sleep")]
    /\ UNCHANGED <<pc, cmd, runs, wfCalls, startUrl, registerOutput, deviceAuth, browser,
                   displayed, i, interval, lastResp, prevInterval, slept, wfResult,
                   lastInterval, cache, fs, fsAtStart, runErr>>
    /\ UNCHANGED extVars

(***************************************************************************)
(* saveCacheFile (sso.go:401-424)                                          *)
(***************************************************************************)
\* os.MkdirAll(cacheDir, 0700): creates the directory when it is missing
MkdirAll(dir, perm) ==
    IF dir.exists THEN dir ELSE [exists |-> TRUE, mode |-> perm, files |-> <<>>]

\* os.WriteFile(name, data, perm): creates the file with perm, or truncates an
\* existing one, and writes data
WriteFile(dir, name, data, perm) ==
    [dir EXCEPT !.files =
        IF name \in DOMAIN dir.files
        THEN [dir.files EXCEPT ![name] = [data |-> data, mode |-> @.mode]]
        ELSE dir.files @@ (name :> [data |-> data, mode |-> perm])]

SaveCacheFile(outcome) ==
    /\ pc = "save"
    /\ obs' = [obs EXCEPT !.save = @ + 1]
    /\ pc' = "done"
    /\ CASE outcome = "mkdirErr" ->
              /\ fs' = fs
              /\ runErr' = "save cache file: failed to create sso cache directory"
         [] outcome = "writeErr" ->
              /\ fs' = MkdirAll(fs, DirPerm)
              /\ runErr' = "save cache file: failed to write cache file"
         [] outcome = "ok" ->
              /\ fs' = WriteFile(MkdirAll(fs, DirPerm), CacheFileName(cache.StartURL),
                                 cache, FilePerm)
              /\ runErr' = ""
    /\ UNCHANGED <<cmd, runs, wfCalls, startUrl, registerOutput, deviceAuth, browser,
                   displayed, ctx, i, interval, lastResp, prevInterval, slept,
                   wfResult, lastInterval, cache, fsAtStart>>
    /\ UNCHANGED extVars

\* the command has returned and the process exits
Exit ==
    /\ pc = "done"
    /\ pc' = "idle"
    /\ cmd' = "none"
    /\ startUrl' = ""
    /\ registerOutput' = NoRegister
    /\ deviceAuth' = NoDeviceAuth
    /\ browser' = "none"
    /\ displayed' = FALSE
    /\ ctx' = "background"
    /\ lastResp' = NoResp
    /\ prevInterval' = 0
    /\ slept' = 0
    /\ obs' = NoObs
    /\ wfResult' = NotReturned
    /\ cache' = NoCache
    /\ runErr' = ""
    /\ fsAtStart' = fs
    /\ wfCalls' = 0
    /\ i' = 0
    /\ interval' = 0
    /\ lastInterval' = 0
    /\ UNCHANGED <<runs, fs>>
    /\ UNCHANGED extVars

\* one run of the tool after another
Next ==
    \/ \E url \in UrlFlags, clientOk \in BOOLEAN : Login(url, clientOk)
    \/ \E out \in RegisterOutputs, ok \in BOOLEAN : RegisterClient(out, ok)
    \/ \E out \in DeviceAuths, ok \in BOOLEAN : StartDeviceAuthorization(out, ok)
    \/ \E ok \in BOOLEAN : OpenBrowser(ok)
    \/ \E resp \in CreateTokenResponses : CreateToken(resp)
    \/ SleepDone
    \/ \E outcome \in {"ok", "mkdirErr", "writeErr"} : SaveCacheFile(outcome)
    \/ Exit

Spec == Init /\ [][Next]_vars

\* processes that call WaitForToken themselves, with a context of their own
NextCaller ==
    \/ CallWaitForToken
    \/ \E resp \in CreateTokenResponses : CreateToken(resp)
    \/ SleepDone
    \/ Cancel
    \/ Exit

SpecCaller == Init /\ [][NextCaller]_vars

(***************************************************************************)
(* logout (sso.go:108-139) and saveCacheFile called one after another      *)
(***************************************************************************)
\* a file below a subdirectory of the cache directory
NestedFile == "old/legacy.json"

\* an entry another tool wrote for the example start URL
StaleEntry ==
    [StartURL |-> StartUrlOf("example"), Region |-> Region, AccessToken |-> "T0",
     ExpiresAt |-> FormatRFC3339(1600000000), ClientID |-> "client-0",
     ClientSecret |-> "secret-0", RegistrationExpiresAt |-> FormatRFC3339(1600086400)]

\* the cache directory before the first call
InitialFsCache ==
    InitialFs \cup
    {[exists |-> TRUE, mode |-> DirPerm, files |-> <<>>],
     [exists |-> TRUE, mode |-> 493,
      files |-> (CacheFileName(StartUrlOf("example")) :> [data |-> StaleEntry, mode |-> 420])
                @@ (ForeignFile :> [data |-> NoCache, mode |-> 420])
                @@ (NestedFile :> [data |-> NoCache, mode |-> FilePerm])]}

\* the entries getToken may return
CacheEntries ==
    {BuildCache(StartUrlOf(u), t, reg, now) :
        u \in UrlFlags \ {""}, t \in TokenOutputs, reg \in RegisterOutputs, now \in Times}

\* the file names of the model in the order filepath.Walk visits them
\* (lexical, a directory's files right after the directory)
WalkOrder == <<CacheFileName(StartUrlOf("corp")), CacheFileName(StartUrlOf("example")),
               ForeignFile, NestedFile>>

\* os.ReadDir in place of filepath.Walk: the files of the directory itself
WalkFilesTopLevel(dir) ==
    SelectSeq(WalkOrder, LAMBDA n : n \in DOMAIN dir.files /\ n # NestedFile)

\* the files filepath.Walk passes to the callback with info.IsDir() false
WalkFiles(dir) == SelectSeq(WalkOrder, LAMBDA n : n \in DOMAIN dir.files)

\* logout on the directory dir, os.Remove failing on the failAt-th file
\* visited (0: no failure): the directory afterwards and the error returned
LogoutResult(dir, failAt) ==
    IF ~dir.exists
    THEN [fs |-> dir, err |-> "directory does not exist"]
    ELSE LET walk    == WalkFiles(dir)
             n       == IF failAt = 0 THEN Len(walk) ELSE failAt - 1
             removed == {walk[j] : j \in 1..n}
         IN  [fs  |-> [dir EXCEPT !.files =
                          [f \in DOMAIN dir.files \ removed |-> dir.files[f]]],
              err |-> IF failAt = 0 THEN "" ELSE "error walking directory: delete file"]

Logout(failAt) ==
    /\ failAt \in 0..Len(WalkFiles(fs))
    /\ LET r == LogoutResult(fs, failAt) IN
       /\ fs' = r.fs
       /\ cacheOps' = [op |-> "logout", err |-> r.err, before |-> fs,
                       purged |-> IF r.err = "" THEN TRUE
                                  ELSE IF fs.exists THEN FALSE ELSE cacheOps.purged,
                       saved |-> IF fs.exists THEN <<>> ELSE cacheOps.saved]
    /\ UNCHANGED <<runVars, cfgSys, race, otherVars>>

\* saveCacheFile(entry) (sso.go:401-424)
SaveEntry(entry, outcome) ==
    /\ CASE outcome = "mkdirErr" ->
              /\ ~fs.exists
              /\ fs' = fs
              /\ cacheOps' = [cacheOps EXCEPT !.op = "save", !.before = fs,
                                   !.err = "failed to create sso cache directory"]
         [] outcome = "writeErr" ->
              /\ fs' = MkdirAll(fs, DirPerm)
              /\ cacheOps' = [cacheOps EXCEPT !.op = "save", !.before = fs,
                                   !.err = "failed to write cache file"]
         [] outcome = "ok" ->
              /\ fs' = WriteFile(MkdirAll(fs, DirPerm), CacheFileName(entry.StartURL),
                                 entry, FilePerm)
              /\ cacheOps' = [cacheOps EXCEPT !.op = "save", !.before = fs, !.err = "",
                                   !.saved = (entry.StartURL :> entry) @@ @]
    /\ UNCHANGED <<runVars, cfgSys, race, otherVars>>

InitCache ==
    /\ RunInit
    /\ fs \in InitialFsCache
    /\ fsAtStart = fs
    /\ cacheOps = NoCacheOps
    /\ cfgSys = NoCfgSys
    /\ race = NoRace
    /\ OtherInit

NextCache ==
    \/ \E failAt \in 0..Len(WalkOrder) : Logout(failAt)
    \/ \E entry \in CacheEntries, outcome \in {"ok", "mkdirErr", "writeErr"} :
          SaveEntry(entry, outcome)

SpecCache == InitCache /\ [][NextCache]_vars

(***************************************************************************)
(* The text of ~/.aws/config.  A text is a sequence of pieces: the         *)
(* whitespace pieces NL and SP stand for one byte each, every other piece  *)
(* is a run of bytes that neither starts nor ends with whitespace.  The    *)
(* texts of the model are cut so that a profile header is always a piece   *)
(* of its own.                                                             *)
(***************************************************************************)
NL == "\n"
SP == " "

\* unicode.IsSpace on the whitespace of the model
IsSpace(piece) == piece \in {NL, SP}

\* strings.TrimSpace
TrimSpace(text) ==
    LET keep == {k \in 1..Len(text) : ~IsSpace(text[k])}
    IN IF keep = {} THEN <<>>
       ELSE SubSeq(text, CHOOSE k \in keep : \A j \in keep : k <= j,
                         CHOOSE k \in keep : \A j \in keep : j <= k)

\* strings.Contains(text, header): the header occurs anywhere in the text,
\* at the start of a line or not
Contains(text, header) == \E k \in 1..Len(text) : text[k] = header

\* fmt.Sprintf("[profile %s]", name)
ProfileHeader(name) == "[profile " \o name \o "]"

\* the accounts ListAccounts returns, each with the one role ListAccountRoles
\* returns for it
Accounts == <<[AccountName |-> "Dev", AccountId |-> "111111111111", RoleName |-> "Admin"],
              [AccountName |-> "Prod Main", AccountId |-> "222222222222", RoleName |-> "Admin"],
              [AccountName |-> "dev", AccountId |-> "333333333333", RoleName |-> "Admin"]>>

\* strings.ToLower(strings.ReplaceAll(profileName, " ", "-")), tabulated for
\* the names of the model
LowerDashed(profileName) ==
    CASE profileName = "Dev-Admin" -> "dev-admin"
      [] profileName = "Prod Main-Admin" -> "prod-main-admin"
      [] profileName = "dev-Admin" -> "dev-admin"
      [] profileName = "Dev-ReadOnly" -> "dev-readonly"
      [] profileName = "Prod Main-ReadOnly" -> "prod-main-readonly"
      [] profileName = "dev-ReadOnly" -> "dev-readonly"
      [] OTHER -> profileName

\* the ProfileConfig generateConfig builds for one selected account and role
ProfileOf(account) ==
    [Name |-> LowerDashed(account.AccountName \o "-" \o account.RoleName),
     StartUrl |-> StartUrlOf("example"),
     Region |-> Region,
     AccountId |-> account.AccountId,
     RoleName |-> account.RoleName]

\* accountsToProcess after the selection is parsed (0-based indices, in the
\* order typed, a repeated number kept): "", "1", "2", "1,2", "1,1", "1,3"
Selections == {<<>>, <<0>>, <<1>>, <<0, 1>>, <<0, 0>>, <<0, 2>>}

\* the profiles slice: one entry per selected index, in order
ProfilesOf(selection) == [k \in 1..Len(selection) |-> ProfileOf(Accounts[selection[k] + 1])]

\* profileTemplate executed for one profile
RenderProfile(profile) ==
    <<NL, ProfileHeader(profile.Name), NL,
      "sso_start_url = " \o profile.StartUrl, NL,
      "sso_region = " \o profile.Region, NL,
      "sso_account_id = " \o profile.AccountId, NL,
      "sso_role_name = " \o profile.RoleName, NL,
      "region = " \o profile.Region, NL>>

\* the loop of appendProfiles: config is the strings.Builder, existing the
\* text every profile is looked up in
RECURSIVE WriteProfiles(_, _, _)
WriteProfiles(config, existing, profiles) ==
    IF profiles = <<>> THEN config
    ELSE LET profile == Head(profiles)
         IN IF Contains(existing, ProfileHeader(profile.Name))
            THEN WriteProfiles(config, existing, Tail(profiles))
            ELSE WriteProfiles(config \o RenderProfile(profile) \o <<NL>>,
                               existing, Tail(profiles))

\* the rendered profiles written to the builder before the existing text
appendProfilesSectionsFirst(existingConfig, profiles) ==
    LET existing == IF existingConfig # <<>>
                    THEN TrimSpace(existingConfig) \o <<NL, NL>> ELSE <<>>
    IN WriteProfiles(<<>>, existing, profiles) \o existing

appendProfiles(existingConfig, profiles) ==
    LET existing == IF existingConfig # <<>>
                    THEN TrimSpace(existingConfig) \o <<NL, NL>> ELSE <<>>
    IN WriteProfiles(existing, existing, profiles)

(***************************************************************************)
(* generateConfig from the profiles on (sso.go:287-317), run by two        *)
(* processes on one ~/.aws/config.  A process takes one step per system    *)
(* call that touches the file: readAwsConfig (together with the merge,     *)
(* which touches nothing shared), the open of os.WriteFile, which          *)
(* truncates, and its write.                                               *)
(***************************************************************************)
ConfigRuns == {1, 2}

OwnerReadable(mode) == (mode \div 256) % 2 = 1
OwnerWritable(mode) == (mode \div 128) % 2 = 1

NoFile == [exists |-> FALSE, content |-> <<>>, mode |-> 0]

IdleRun == [pc |-> "idle", profiles |-> <<>>, after |-> {}, readErr |-> "",
            existing |-> <<>>, newConfig |-> <<>>, old |-> <<>>, err |-> "",
            wrote |-> FALSE]

DefaultSection == <<"[default]", NL, "region = us-east-1", NL>>

\* texts ~/.aws/config may hold before the tool runs: hand-written, with
\* blank lines and indentation around it, with a section the tool wrote
\* earlier, and with a profile header mentioned in a comment
ExistingConfigs ==
    {<<>>,
     DefaultSection,
     <<NL, SP, SP>> \o DefaultSection \o <<"output = json", SP, NL, NL, NL>>,
     DefaultSection \o RenderProfile(ProfileOf(Accounts[1])) \o <<NL>>,
     <<"#", SP, ProfileHeader(ProfileOf(Accounts[2]).Name), SP, "is", SP, "retired", NL>>
         \o DefaultSection}

\* ~/.aws and its config file before the tool runs: no directory, no file,
\* a file of mode 0600 or 0644, a file the owner cannot read (0200) and one
\* the owner cannot write (0400)
InitialCfgFiles ==
    {[dir |-> FALSE, file |-> NoFile], [dir |-> TRUE, file |-> NoFile]}
    \cup {[dir |-> TRUE, file |-> [exists |-> TRUE, content |-> c, mode |-> FilePerm]] :
            c \in ExistingConfigs}
    \cup {[dir |-> TRUE, file |-> [exists |-> TRUE, content |-> DefaultSection, mode |-> m]] :
            m \in {420, 128, 256}}

\* len(profiles) == 0 ends the run; otherwise the run goes on to read the file
GenerateConfig(p, selection) ==
    /\ cfgSys.procs[p].pc = "idle"
    /\ LET profiles == ProfilesOf(selection)
           done == {q \in ConfigRuns : cfgSys.procs[q].pc = "done"}
       IN cfgSys' = [cfgSys EXCEPT !.procs[p] =
            IF Len(profiles) = 0
            THEN [@ EXCEPT !.pc = "done", !.after = done,
                           !.err = "no roles selected for any accounts"]
            ELSE [@ EXCEPT !.pc = "read", !.profiles = profiles, !.after = done]]
    /\ UNCHANGED <<runVars, fs, cacheOps, race, otherVars>>

\* readAwsConfig: the content of the file, or "" and an error
ReadAwsConfigResult(sys, outcome) ==
    IF outcome = "mkdirErr"
    THEN [dir |-> sys.dir, file |-> sys.file, content |-> <<>>,
          err |-> "create aws directory"]
    ELSE LET file == IF sys.file.exists THEN sys.file
                     ELSE [exists |-> TRUE, content |-> <<>>, mode |-> FilePerm]
         IN IF OwnerReadable(file.mode)
            THEN [dir |-> TRUE, file |-> file, content |-> file.content, err |-> ""]
            ELSE [dir |-> TRUE, file |-> file, content |-> <<>>,
                  err |-> "read config file"]

\* the warning replaces the error of readAwsConfig; the profiles are merged
\* into what was read
ReadAwsConfig(p, outcome) ==
    /\ cfgSys.procs[p].pc = "read"
    /\ outcome = "mkdirErr" => ~cfgSys.dir
    /\ LET r == ReadAwsConfigResult(cfgSys, outcome)
           existingConfig == IF r.err # "" THEN <<>> ELSE r.content
       IN cfgSys' = [cfgSys EXCEPT
            !.dir = r.dir,
            !.file = r.file,
            !.procs[p] = [@ EXCEPT !.pc = "write", !.readErr = r.err,
                                   !.existing = existingConfig,
                                   !.newConfig = appendProfiles(existingConfig,
                                                      cfgSys.procs[p].profiles)]]
    /\ UNCHANGED <<runVars, fs, cacheOps, race, otherVars>>

\* os.WriteFile, first half: open with O_WRONLY|O_CREATE|O_TRUNC and mode 0600
OpenConfigFile(p) ==
    /\ cfgSys.procs[p].pc = "write"
    /\ IF ~cfgSys.dir \/ (cfgSys.file.exists /\ ~OwnerWritable(cfgSys.file.mode))
       THEN cfgSys' = [cfgSys EXCEPT !.procs[p] =
                [@ EXCEPT !.pc = "done", !.err = "write config file"]]
       ELSE cfgSys' = [cfgSys EXCEPT
                !.file = [exists |-> TRUE, content |-> <<>>,
                          mode |-> IF @.exists THEN @.mode ELSE FilePerm],
                !.procs[p] = [@ EXCEPT !.pc = "writing", !.old = cfgSys.file.content]]
    /\ UNCHANGED <<runVars, fs, cacheOps, race, otherVars>>

\* the bytes written at offset 0 over what the file holds at that moment
WriteAt0(content, data) == data \o SubSeq(content, Len(data) + 1, Len(content))

\* os.WriteFile, second half: the write of the merged text
WriteConfigData(p) ==
    /\ cfgSys.procs[p].pc = "writing"
    /\ cfgSys' = [cfgSys EXCEPT
            !.file.content = WriteAt0(@, cfgSys.procs[p].newConfig),
            !.procs[p] = [@ EXCEPT !.pc = "done", !.wrote = TRUE]]
    /\ UNCHANGED <<runVars, fs, cacheOps, race, otherVars>>

\* the process is killed between the open and the write
CrashWhileWriting(p) ==
    /\ cfgSys.procs[p].pc = "writing"
    /\ cfgSys' = [cfgSys EXCEPT !.procs[p] = [@ EXCEPT !.pc = "crashed"]]
    /\ UNCHANGED <<runVars, fs, cacheOps, race, otherVars>>

InitConfig ==
    /\ RunInit
    /\ fs = NoDir
    /\ fsAtStart = fs
    /\ cacheOps = NoCacheOps
    /\ race = NoRace
    /\ OtherInit
    /\ \E f \in InitialCfgFiles :
          cfgSys = [dir |-> f.dir, file |-> f.file, procs |-> [p \in ConfigRuns |-> IdleRun]]

NextConfig ==
    \/ \E p \in ConfigRuns, selection \in Selections : GenerateConfig(p, selection)
    \/ \E p \in ConfigRuns, outcome \in {"ok", "mkdirErr"} : ReadAwsConfig(p, outcome)
    \/ \E p \in ConfigRuns : OpenConfigFile(p)
    \/ \E p \in ConfigRuns : WriteConfigData(p)
    \/ \E p \in ConfigRuns : CrashWhileWriting(p)

SpecConfig == InitConfig /\ [][NextConfig]_vars

(***************************************************************************)
(* saveCacheFile (sso.go:401-424) run by two processes for one start URL.  *)
(* json.Marshal touches nothing shared; os.WriteFile is an open, which     *)
(* truncates the file, and a write of the data at offset 0.                *)
(***************************************************************************)
SaveRuns == {1, 2}

\* tokens the broker issues to the two logins; their lengths differ
RaceTokens == TokenOutputs \cup {[AccessToken |-> "T3-reissued", ExpiresIn |-> 3600]}

RaceEntries ==
    {BuildCache(StartUrlOf("example"), t, reg, now) :
        t \in RaceTokens, reg \in RegisterOutputs, now \in Times}

\* len(json.Marshal(cache)): braces, six commas, and per field its quoted
\* json key, the colon and the quoted value; an RFC3339 UTC time is 20 bytes
MarshalLen(entry) ==
    2 + 6 + (8 + 5 + Len(entry.StartURL)) + (6 + 5 + Len(entry.Region))
      + (11 + 5 + Len(entry.AccessToken)) + (9 + 5 + 20)
      + (8 + 5 + Len(entry.ClientID)) + (12 + 5 + Len(entry.ClientSecret))
      + (21 + 5 + 20)

\* json.Marshal(entry): byte k of the serialization of the entry
Marshal(entry) == [k \in 1..MarshalLen(entry) |-> <<entry, k>>]

IdleSave == [pc |-> "idle", entry |-> NoCache, jsonData |-> <<>>]

\* the cache file before the two calls: absent, or holding an older entry
InitialRaceFiles == {<<>>, Marshal(StaleEntry)}

\* saveCacheFile up to json.Marshal
SaveMarshal(q, entry) ==
    /\ race.procs[q].pc = "idle"
    /\ race' = [race EXCEPT !.procs[q] =
            [pc |-> "open", entry |-> entry, jsonData |-> Marshal(entry)]]
    /\ UNCHANGED <<runVars, fs, cacheOps, cfgSys, otherVars>>

\* os.WriteFile, first half: open with O_WRONLY|O_CREATE|O_TRUNC
SaveOpen(q) ==
    /\ race.procs[q].pc = "open"
    /\ race' = [race EXCEPT !.content = <<>>, !.procs[q].pc = "write"]
    /\ UNCHANGED <<runVars, fs, cacheOps, cfgSys, otherVars>>

\* os.WriteFile, second half: the write of jsonData
SaveWrite(q) ==
    /\ race.procs[q].pc = "write"
    /\ race' = [race EXCEPT !.content = WriteAt0(@, race.procs[q].jsonData),
                            !.procs[q].pc = "done"]
    /\ UNCHANGED <<runVars, fs, cacheOps, cfgSys, otherVars>>

InitSaveRace ==
    /\ RunInit
    /\ fs = NoDir
    /\ fsAtStart = fs
    /\ cacheOps = NoCacheOps
    /\ cfgSys = NoCfgSys
    /\ OtherInit
    /\ \E c \in InitialRaceFiles :
          race = [content |-> c, procs |-> [q \in SaveRuns |-> IdleSave]]

NextSaveRace ==
    \/ \E q \in SaveRuns, entry \in RaceEntries : SaveMarshal(q, entry)
    \/ \E q \in SaveRuns : SaveOpen(q)
    \/ \E q \in SaveRuns : SaveWrite(q)

SpecSaveRace == InitSaveRace /\ [][NextSaveRace]_vars

(***************************************************************************)
(* The selection prompts of generateConfig (sso.go:173-206 and 237-269).   *)
(* What the user types is a sequence of characters; standard input is the  *)
(* sequence of characters typed and not yet read.                          *)
(***************************************************************************)
\* the most entries of a typed selection
MaxEntries == 2

\* strings.ToLower on the letters of the model
ToLowerChar(c) ==
    CASE c = "A" -> "a"
      [] c = "L" -> "l"
      [] OTHER -> c

ToLower(chars) == [k \in DOMAIN chars |-> ToLowerChar(chars[k])]

DigitValue(c) ==
    CASE c = "0" -> 0 [] c = "1" -> 1 [] c = "2" -> 2 [] c = "3" -> 3 [] c = "4" -> 4
      [] c = "5" -> 5 [] c = "6" -> 6 [] c = "7" -> 7 [] c = "8" -> 8 [] c = "9" -> 9
      [] OTHER -> -1

RECURSIVE DecimalValue(_)
DecimalValue(digits) ==
    IF digits = <<>> THEN 0
    ELSE 10 * DecimalValue(SubSeq(digits, 1, Len(digits) - 1))
         + DigitValue(digits[Len(digits)])

\* strconv.Atoi: an optional sign and at least one decimal digit; the inputs
\* of the model stay far below the range of int
Atoi(chars) ==
    LET signed == chars # <<>> /\ chars[1] \in {"+", "-"}
        digits == IF signed THEN Tail(chars) ELSE chars
    IN IF digits = <<>> \/ \E k \in 1..Len(digits) : DigitValue(digits[k]) < 0
       THEN [err |-> TRUE, value |-> 0]
       ELSE [err |-> FALSE,
             value |-> IF signed /\ chars[1] = "-" THEN 0 - DecimalValue(digits)
                       ELSE DecimalValue(digits)]

\* strings.Split(chars, sep)
RECURSIVE Split(_, _)
Split(chars, sep) ==
    LET at == {k \in 1..Len(chars) : chars[k] = sep}
    IN IF at = {} THEN <<chars>>
       ELSE LET k == CHOOSE a \in at : \A b \in at : a <= b
            IN <<SubSeq(chars, 1, k - 1)>> \o Split(SubSeq(chars, k + 1, Len(chars)), sep)

\* fmt.Scanln(&input) on standard input, which holds at least one line: the
\* leading spaces are skipped, the value is the run of characters up to the
\* next space or line end, and only spaces may follow it on the line.  What
\* has been read is consumed, the rest stays for the next read.
Scanln(stdin) ==
    LET first == CHOOSE k \in 1..Len(stdin) :
                    stdin[k] # SP /\ \A j \in 1..(k - 1) : stdin[j] = SP
    IN IF stdin[first] = NL
       THEN [value |-> <<>>, err |-> "unexpected newline",
             rest |-> SubSeq(stdin, first + 1, Len(stdin))]
       ELSE LET stop == CHOOSE k \in (first + 1)..Len(stdin) :
                           IsSpace(stdin[k]) /\ \A j \in first..(k - 1) : ~IsSpace(stdin[j])
                next == CHOOSE k \in stop..Len(stdin) :
                           stdin[k] # SP /\ \A j \in stop..(k - 1) : stdin[j] = SP
            IN [value |-> SubSeq(stdin, first, stop - 1),
                err |-> IF stdin[next] = NL THEN "" ELSE "expected newline",
                rest |-> SubSeq(stdin, next + 1, Len(stdin))]

\* the input the prompt works with: "" when Scanln returned an error
ReadInput(stdin) ==
    LET r == Scanln(stdin)
    IN [input |-> IF r.err # "" THEN <<>> ELSE r.value, rest |-> r.rest]

\* index < 1 || index > len(list) not being the case, with no lower bound
ValidIndexNoLowerBound(index, n) == index <= n

\* index < 1 || index > len(list) not being the case
ValidIndex(index, n) == index >= 1 /\ index <= n

\* "all" taken as the numbers 1..n without the conversion to 0-based indices
SelectAllOneBased(n) == [k \in 1..n |-> k]

\* "all": every index of the list
SelectAll(n) == [k \in 1..n |-> k - 1]

\* the loop over the entries of the split input
RECURSIVE ParseIndices(_, _)
ParseIndices(entries, n) ==
    IF entries = <<>> THEN [selected |-> <<>>, warnings |-> <<>>]
    ELSE LET indexStr == TrimSpace(Head(entries))
             rest == ParseIndices(Tail(entries), n)
             index == Atoi(indexStr)
         IN IF indexStr = <<>> THEN rest
            ELSE IF index.err \/ ~ValidIndex(index.value, n)
            THEN [selected |-> rest.selected, warnings |-> <<indexStr>> \o rest.warnings]
            ELSE [selected |-> <<index.value - 1>> \o rest.selected,
                  warnings |-> rest.warnings]

\* the selection of one prompt over a list of n items: the 0-based indices
\* selected, in order, and the entries a warning was printed for
ParseSelection(input, n) ==
    IF ToLower(input) = <<"a", "l", "l">>
    THEN [selected |-> SelectAll(n), warnings |-> <<>>]
    ELSE ParseIndices(Split(input, ","), n)

\* the lines typed at a role prompt, without the line end: "1", "2", "1,2",
\* "2,1", "all", "", "x,1", "0,2", "3", "1, 2" and "1, 22"
RoleLines ==
    {<<"1">>, <<"2">>, <<"1", ",", "2">>, <<"2", ",", "1">>, <<"a", "l", "l">>, <<>>,
     <<"x", ",", "1">>, <<"0", ",", "2">>, <<"3">>, <<"1", ",", SP, "2">>,
     <<"1", ",", SP, "2", "2">>}

\* entries a user types between commas
Entries == {<<"1">>, <<"2">>, <<"0">>, <<"x">>, <<>>, <<SP, "2">>}

RECURSIVE Join(_)
Join(entries) ==
    IF Len(entries) = 1 THEN entries[1]
    ELSE entries[1] \o <<",">> \o Join(Tail(entries))

\* the lines a user types at a prompt, without the line end
TypedLines ==
    UNION {{Join(es) : es \in [1..k -> Entries]} : k \in 1..MaxEntries}
    \cup {<<"a", "l", "l">>, <<"A", "l", "L">>, <<"1", ",", "2", ",", "3">>,
          <<"-", "1", ",", "3">>, <<"1", ",", SP, "2", "2">>}

(***************************************************************************)
(* generateConfig (sso.go:141-318), one run: a step per call to the        *)
(* outside (getToken, ListAccounts, a prompt read from standard input,     *)
(* ListAccountRoles); from the profiles on the run is run 1 of the          *)
(* configuration file steps above.                                         *)
(***************************************************************************)
\* what ListAccounts returns: the first n accounts
AccountLists == {SubSeq(Accounts, 1, n) : n \in 0..Len(Accounts)}

\* what ListAccountRoles returns for an account
RoleLists == {<<>>, <<"Admin">>, <<"Admin", "ReadOnly">>}

NoGenErr == [msg |-> "", account |-> ""]

IdleGen ==
    [pc |-> "idle", stdin |-> <<>>, accounts |-> <<>>, typed |-> <<>>, prompts |-> 0,
     asked |-> 0, accountsToProcess |-> <<>>, selected |-> <<>>, warnings |-> <<>>,
     k |-> 0, roles |-> <<>>, profiles |-> <<>>, roleCalls |-> 0, failed |-> 0,
     fresh |-> FALSE, err |-> NoGenErr,
     dirAtStart |-> FALSE, fileAtStart |-> NoFile]

\* the run returns the error
Returns(g, msg, account) == [g EXCEPT !.pc = "done", !.err = [msg |-> msg, account |-> account]]

\* whatever the profiles, the run goes on to the configuration file
FinishGoesOn(g) == [g EXCEPT !.pc = "merge"]

\* after the loop over accountsToProcess: len(profiles) == 0 ends the run
Finish(g) ==
    IF Len(g.profiles) = 0 THEN Returns(g, "no roles selected for any accounts", "")
    ELSE [g EXCEPT !.pc = "merge"]

\* the next iteration of the loop over accountsToProcess, or its end
NextAccount(g) ==
    IF g.k = Len(g.accountsToProcess) THEN Finish(g)
    ELSE [g EXCEPT !.pc = "listRoles", !.k = @ + 1]

\* the account of the current iteration: accounts.AccountList[accountIndex]
CurrentAccount(g) == g.accounts[g.accountsToProcess[g.k] + 1]

\* standard input at a prompt: the user types a line when nothing is left
\* to read
AtPrompt(g, line) == IF g.stdin = <<>> THEN line \o <<NL>> ELSE g.stdin

\* url == "", getToken and NewSSOClient
StartGenerateConfig(outcome) ==
    /\ gen.pc = "idle"
    /\ LET g == [gen EXCEPT !.dirAtStart = cfgSys.dir, !.fileAtStart = cfgSys.file]
       IN gen' = CASE outcome = "noUrl" ->
                        Returns(g, "please specify the AWS SSO access portal URL with --url flag", "")
                   [] outcome = "getTokenErr" -> Returns(g, "get token", "")
                   [] outcome = "clientErr" -> Returns(g, "create SSO client", "")
                   [] outcome = "ok" -> [g EXCEPT !.pc = "listAccounts"]
    /\ UNCHANGED <<runVars, fs, cacheOps, cfgSys, race, listing, selector, digestClient>>

\* aws.ListAccounts
GenListAccounts(ok, accounts) ==
    /\ gen.pc = "listAccounts"
    /\ gen' = IF ok THEN [gen EXCEPT !.pc = "accountPrompt", !.accounts = accounts]
              ELSE Returns(gen, "list accounts", "")
    /\ UNCHANGED <<runVars, fs, cacheOps, cfgSys, race, listing, selector, digestClient>>

\* the account prompt: Scanln, the selection, len(accountsToProcess) == 0
PromptAccounts(line) ==
    /\ gen.pc = "accountPrompt"
    /\ gen.stdin # <<>> => line = <<>>
    /\ LET r == ReadInput(AtPrompt(gen, line))
           parsed == ParseSelection(r.input, Len(gen.accounts))
           g == [gen EXCEPT !.stdin = r.rest, !.typed = line, !.prompts = @ + 1,
                            !.fresh = (gen.stdin = <<>>),
                            !.asked = Len(gen.accounts),
                            !.accountsToProcess = parsed.selected,
                            !.selected = parsed.selected,
                            !.warnings = parsed.warnings]
       IN gen' = IF Len(parsed.selected) = 0
                 THEN Returns(g, "no valid accounts selected", "")
                 ELSE [g EXCEPT !.pc = "listRoles", !.k = 1]
    /\ UNCHANGED <<runVars, fs, cacheOps, cfgSys, race, listing, selector, digestClient>>

\* the error of ListAccountRoles printed as a warning and the account skipped
RolesFailedSkipsAccount(g) == NextAccount(g)

\* the error of ListAccountRoles ends the run
RolesFailed(g) == Returns(g, "list account roles for", CurrentAccount(g).AccountId)

\* the run after the hand-over of the profiles: run 1 is about to read the file
Handover(g, sys) ==
    IF g.pc = "merge"
    THEN [sys EXCEPT !.procs[1] = [IdleRun EXCEPT !.pc = "read", !.profiles = g.profiles]]
    ELSE sys

\* aws.ListAccountRoles for the account of this iteration
GenListAccountRoles(ok, roles) ==
    /\ gen.pc = "listRoles"
    /\ IF gen.accountsToProcess[gen.k] + 1 \notin DOMAIN gen.accounts
       THEN /\ gen' = [gen EXCEPT !.pc = "panic"]
            /\ cfgSys' = cfgSys
       ELSE LET called == [gen EXCEPT !.roleCalls = @ + 1,
                                         !.failed = IF ok THEN @ ELSE gen.k]
                g == IF ~ok THEN RolesFailed(called)
                     ELSE IF Len(roles) = 0 THEN NextAccount(called)
                     ELSE [called EXCEPT !.pc = "rolePrompt", !.roles = roles]
            IN /\ gen' = g
               /\ cfgSys' = Handover(g, cfgSys)
    /\ UNCHANGED <<runVars, fs, cacheOps, race, listing, selector, digestClient>>

\* the ProfileConfig of one account and role
ProfileConfigOf(account, roleName) ==
    [Name |-> LowerDashed(account.AccountName \o "-" \o roleName),
     StartUrl |-> StartUrlOf("example"),
     Region |-> Region,
     AccountId |-> account.AccountId,
     RoleName |-> roleName]

\* the role prompt: Scanln, the selection, and the profiles of the selected
\* roles
PromptRoles(line) ==
    /\ gen.pc = "rolePrompt"
    /\ gen.stdin # <<>> => line = <<>>
    /\ LET r == ReadInput(AtPrompt(gen, line))
           parsed == ParseSelection(r.input, Len(gen.roles))
           selectedRoles == parsed.selected
           read == [gen EXCEPT !.stdin = r.rest, !.typed = line, !.prompts = @ + 1,
                               !.fresh = (gen.stdin = <<>>),
                               !.asked = Len(gen.roles),
                               !.selected = selectedRoles, !.warnings = parsed.warnings]
       IN IF \E j \in 1..Len(selectedRoles) : selectedRoles[j] + 1 \notin DOMAIN gen.roles
          THEN /\ gen' = [read EXCEPT !.pc = "panic"]
               /\ cfgSys' = cfgSys
          ELSE LET g == NextAccount([read EXCEPT !.profiles = @ \o
                            [j \in 1..Len(selectedRoles) |->
                                ProfileConfigOf(CurrentAccount(gen),
                                                gen.roles[selectedRoles[j] + 1])]])
               IN /\ gen' = g
                  /\ cfgSys' = Handover(g, cfgSys)
    /\ UNCHANGED <<runVars, fs, cacheOps, race, listing, selector, digestClient>>

\* run 1 has returned from the configuration file steps
GenReturn ==
    /\ gen.pc = "merge"
    /\ cfgSys.procs[1].pc = "done"
    /\ gen' = [gen EXCEPT !.pc = "done", !.err = [msg |-> cfgSys.procs[1].err, account |-> ""]]
    /\ UNCHANGED <<runVars, fs, cacheOps, cfgSys, race, listing, selector, digestClient>>

InitProvision ==
    /\ RunInit
    /\ fs = NoDir
    /\ fsAtStart = fs
    /\ cacheOps = NoCacheOps
    /\ race = NoRace
    /\ listing = NoListing
    /\ selector = NoSelector
    /\ digestClient = NoDigestClient
    /\ gen = IdleGen
    /\ \E f \in {[dir |-> FALSE, file |-> NoFile],
                 [dir |-> TRUE, file |-> [exists |-> TRUE, content |-> DefaultSection,
                                          mode |-> FilePerm]]} :
          cfgSys = [dir |-> f.dir, file |-> f.file, procs |-> [p \in ConfigRuns |-> IdleRun]]

NextProvision ==
    \/ \E outcome \in {"ok", "noUrl", "getTokenErr", "clientErr"} : StartGenerateConfig(outcome)
    \/ \E ok \in BOOLEAN, accounts \in AccountLists : GenListAccounts(ok, accounts)
    \/ \E line \in TypedLines : PromptAccounts(line)
    \/ \E ok \in BOOLEAN, roles \in RoleLists : GenListAccountRoles(ok, roles)
    \/ \E line \in RoleLines : PromptRoles(line)
    \/ \E outcome \in {"ok", "mkdirErr"} : ReadAwsConfig(1, outcome)
    \/ OpenConfigFile(1)
    \/ WriteConfigData(1)
    \/ GenReturn

SpecProvision == InitProvision /\ [][NextProvision]_vars

(***************************************************************************)
(* The wrappers of the broker and of the account directory                 *)
(*   internal/aws/sso_oidc.go   RegisterClient, StartDeviceAuthorization,  *)
(*                              CreateToken                                *)
(*   internal/aws/sso.go        ListAccounts, ListAccountRoles             *)
(* A call of a wrapper is followed through the calls it makes to the API.  *)
(* A pointer is a sequence: <<>> is nil, <<v>> points to v.                *)
(***************************************************************************)
\* calls of the API one call of ListAccounts makes before the directory
\* stops handing out continuation tokens
MaxPages == 3

Nil == <<>>

Ptr(v) == <<v>>

\* NextToken of a page: absent, or a token (which may be the empty string)
NextTokens == {Nil, Ptr(""), Ptr("page-2"), Ptr("page-3")}

\* AccountList of a page
PageAccounts == {<<>>, <<"111111111111">>, <<"222222222222", "333333333333">>}

\* what api.ListAccounts returns: an output, an error, or both
ListAccountsResponses(last) ==
    LET tokens  == IF last THEN {Nil} ELSE NextTokens
        outputs == {Ptr([AccountList |-> a, NextToken |-> t]) :
                        a \in PageAccounts, t \in tokens}
    IN  {[o |-> o, err |-> NoErr] : o \in outputs}
        \cup {[o |-> Nil, err |-> e] : e \in {DeniedErr, CanceledErr}}
        \cup {[o |-> o, err |-> DeniedErr] : o \in outputs}

\* what an API with one call per wrapper call returns
ApiOutputs(op) ==
    CASE op = "RegisterClient" -> RegisterOutputs
      [] op = "StartDeviceAuthorization" -> DeviceAuths
      [] op = "CreateToken" -> TokenOutputs
      [] op = "ListAccountRoles" -> {[RoleList |-> r] : r \in RoleLists}

ApiErrors(op) ==
    CASE op = "CreateToken" -> {PendingErr, SlowDownErr, ExpiredErr}
      [] OTHER -> {DeniedErr, CanceledErr}

ApiResponses(op) ==
    {[o |-> Ptr(o), err |-> NoErr] : o \in ApiOutputs(op)}
    \cup {[o |-> Nil, err |-> e] : e \in ApiErrors(op)}
    \cup {[o |-> Ptr(o), err |-> e] : o \in ApiOutputs(op), e \in ApiErrors(op)}

SingleCallWrappers == {"RegisterClient", "StartDeviceAuthorization", "CreateToken",
                       "ListAccountRoles"}

\* the wrapper hands on the output together with the error
WrapKeepsOutput(response) == response

\* o, err := api.X(ctx, input); if err != nil { return nil, err }; return o, nil
Wrap(response) ==
    IF response.err # NoErr THEN [o |-> Nil, err |-> response.err]
    ELSE [o |-> response.o, err |-> NoErr]

IdleListing == [pc |-> "idle", op |-> "", input |-> Nil, calls |-> <<>>,
                responses |-> <<>>, accounts |-> <<>>, nextToken |-> Nil,
                result |-> [o |-> Nil, err |-> NoErr]]

\* a wrapper with one API call is called and returns
CallWrapper(op, response) ==
    /\ listing.pc = "idle"
    /\ listing' = [listing EXCEPT !.pc = "done", !.op = op,
                                  !.calls = <<Nil>>,
                                  !.responses = <<response>>,
                                  !.result = Wrap(response)]
    /\ UNCHANGED <<runVars, fs, cacheOps, cfgSys, race, gen, selector, digestClient>>

\* ListAccounts is called with the input GenerateListAccountsInput built:
\* var accounts []types.AccountInfo; var nextToken *string
StartListAccounts ==
    /\ listing.pc = "idle"
    /\ listing' = [listing EXCEPT !.pc = "page", !.op = "ListAccounts"]
    /\ UNCHANGED <<runVars, fs, cacheOps, cfgSys, race, gen, selector, digestClient>>

\* the next call is made with the input as it was
SameInput(l, token) == l.input

\* input.NextToken = nextToken
NextInput(l, token) == token

\* if err != nil { return nil, err }
PageFailed(l, response) ==
    [l EXCEPT !.pc = "done", !.result = [o |-> Nil, err |-> response.err]]

\* one turn of the loop: api.ListAccounts, append, nextToken, break or go on
ListAccountsPage(response) ==
    /\ listing.pc = "page"
    /\ LET called == [listing EXCEPT !.calls = Append(@, listing.input),
                                     !.responses = Append(@, response)]
       IN  IF response.err # NoErr
           THEN listing' = PageFailed(called, response)
           ELSE LET o        == response.o[1]
                    accounts == called.accounts \o o.AccountList
                IN  IF o.NextToken = Nil
                    THEN listing' =
                           [called EXCEPT !.pc = "done", !.accounts = accounts,
                                          !.nextToken = Nil,
                                          !.result =
                                             [o |-> Ptr([AccountList |-> accounts]),
                                              err |-> NoErr]]
                    ELSE listing' =
                           [called EXCEPT !.accounts = accounts,
                                          !.nextToken = o.NextToken,
                                          !.input = NextInput(called, o.NextToken)]
    /\ UNCHANGED <<runVars, fs, cacheOps, cfgSys, race, gen, selector, digestClient>>

InitDirectory ==
    /\ RunInit
    /\ fs = NoDir
    /\ fsAtStart = fs
    /\ cacheOps = NoCacheOps
    /\ cfgSys = NoCfgSys
    /\ race = NoRace
    /\ gen = NoGen
    /\ selector = NoSelector
    /\ digestClient = NoDigestClient
    /\ listing = IdleListing

NextDirectory ==
    \/ \E op \in SingleCallWrappers : \E response \in ApiResponses(op) :
          CallWrapper(op, response)
    \/ StartListAccounts
    \/ \E response \in ListAccountsResponses(Len(listing.calls) + 1 >= MaxPages) :
          ListAccountsPage(response)

SpecDirectory == InitDirectory /\ [][NextDirectory]_vars

(***************************************************************************)
(* The list selector   internal/util/selecter.go                           *)
(* Select runs a terminal program over a model; the program hands every    *)
(* message to model.Update and ends when Update returns tea.Quit, and      *)
(* Select answers from the model the program ended with.                   *)
(***************************************************************************)
\* items offered to Select
MaxItems == 3
\* messages the program delivers before the user is taken to stop typing
MaxKeys == 3

AllItems == <<"item-1", "item-2", "item-3", "item-4">>

ItemLists == {SubSeq(AllItems, 1, n) : n \in 0..MaxItems}

\* msg.String() of a key message; "x" is a key Update has no case for
Keys == {"up", "k", "down", "j", "enter", "q", "ctrl+c", "x"}

\* a message that is not a tea.KeyMsg
WindowSizeMsg == "WindowSizeMsg"

Msgs == Keys \cup {WindowSizeMsg}

\* model{items: items, cursor: 0, prompt: prompt}
initialModel(items) == [items |-> items, cursor |-> 0, selected |-> Nil]

\* m.cursor++ whatever the cursor is
CursorDownUnbounded(m) == [m EXCEPT !.cursor = @ + 1]

\* if m.cursor < len(m.items)-1 { m.cursor++ }
CursorDown(m) == IF m.cursor < Len(m.items) - 1 THEN [m EXCEPT !.cursor = @ + 1] ELSE m

\* if m.cursor > 0 { m.cursor-- }
CursorUp(m) == IF m.cursor > 0 THEN [m EXCEPT !.cursor = @ - 1] ELSE m

\* model.Update: the model and the command it returns
Update(m, msg) ==
    CASE msg \in {"ctrl+c", "q"} -> [m |-> m, cmd |-> "tea.Quit"]
      [] msg \in {"up", "k"} -> [m |-> CursorUp(m), cmd |-> "nil"]
      [] msg \in {"down", "j"} -> [m |-> CursorDown(m), cmd |-> "nil"]
      [] msg = "enter" ->
            [m |-> [m EXCEPT !.selected = Ptr(m.items[m.cursor + 1])],
             cmd |-> "tea.Quit"]
      [] OTHER -> [m |-> m, cmd |-> "nil"]

NoModel == [items |-> <<>>, cursor |-> 0, selected |-> Nil]

IdleSelector == [pc |-> "idle", m |-> NoModel, before |-> NoModel, msgs |-> <<>>,
                 cmd |-> "nil", result |-> [item |-> Nil, err |-> ""]]

\* Select(items, prompt) up to the start of the program
Select(items) ==
    /\ selector.pc = "idle"
    /\ IF Len(items) = 0
       THEN selector' = [selector EXCEPT !.pc = "done",
                                         !.result = [item |-> Nil,
                                                     err |-> "no items to select"]]
       ELSE selector' = [selector EXCEPT !.pc = "running",
                                         !.m = initialModel(items),
                                         !.before = initialModel(items)]
    /\ UNCHANGED <<runVars, fs, cacheOps, cfgSys, race, gen, listing, digestClient>>

\* the program delivers a message to Update
Deliver(msg) ==
    /\ selector.pc = "running"
    /\ Len(selector.msgs) < MaxKeys
    /\ LET updated == Update(selector.m, msg)
       IN  selector' = [selector EXCEPT !.pc = IF updated.cmd = "tea.Quit"
                                               THEN "quit" ELSE "running",
                                        !.before = selector.m,
                                        !.m = updated.m,
                                        !.cmd = updated.cmd,
                                        !.msgs = Append(@, msg)]
    /\ UNCHANGED <<runVars, fs, cacheOps, cfgSys, race, gen, listing, digestClient>>

\* p.Run() returns an error: the terminal could not be set up or was lost
RunFails ==
    /\ selector.pc = "running"
    /\ selector' = [selector EXCEPT !.pc = "done",
                                    !.result = [item |-> Nil,
                                                err |-> "failed to start bubble tea program"]]
    /\ UNCHANGED <<runVars, fs, cacheOps, cfgSys, race, gen, listing, digestClient>>

\* p.Run() returns the final model; Select answers from it
SelectReturns ==
    /\ selector.pc = "quit"
    /\ selector' = [selector EXCEPT !.pc = "done",
                                    !.result = IF selector.m.selected = Nil
                                               THEN [item |-> Nil,
                                                     err |-> "no item selected"]
                                               ELSE [item |-> selector.m.selected,
                                                     err |-> ""]]
    /\ UNCHANGED <<runVars, fs, cacheOps, cfgSys, race, gen, listing, digestClient>>

InitSelector ==
    /\ RunInit
    /\ fs = NoDir
    /\ fsAtStart = fs
    /\ cacheOps = NoCacheOps
    /\ cfgSys = NoCfgSys
    /\ race = NoRace
    /\ gen = NoGen
    /\ listing = NoListing
    /\ digestClient = NoDigestClient
    /\ selector = IdleSelector

NextSelector ==
    \/ \E items \in ItemLists : Select(items)
    \/ \E msg \in Msgs : Deliver(msg)
    \/ RunFails
    \/ SelectReturns

SpecSelector == InitSelector /\ [][NextSelector]_vars

(***************************************************************************)
(* The digest client   internal/tidb/client.go                             *)
(* One DigestClient, used by one caller at a time: calls of Get and direct *)
(* calls of CreateDigestHeader follow one another.                         *)
(***************************************************************************)
\* calls of Get or CreateDigestHeader made on one client
MaxGets == 3

HexChars == <<"0", "1", "2", "3", "4", "5", "6", "7", "8", "9",
              "a", "b", "c", "d", "e", "f">>

\* strconv-style digits of n in base 16, most significant first
RECURSIVE HexDigits(_)
HexDigits(n) ==
    IF n < 16 THEN <<HexChars[n + 1]>>
    ELSE Append(HexDigits(n \div 16), HexChars[(n % 16) + 1])

\* fmt.Sprintf("%08x", n) for n >= 0: padded with zeros to at least 8 digits
Sprintf08x(n) ==
    LET digits == HexDigits(n)
    IN  IF Len(digits) >= 8 THEN digits
        ELSE [k \in 1..(8 - Len(digits)) |-> "0"] \o digits

\* the challenges of the server: parameters of a WWW-Authenticate header
Challenges == {[realm |-> "tidb.cloud", nonce |-> "n-1", qop |-> "auth"],
               [realm |-> "tidb.cloud", nonce |-> "n-2", qop |-> "auth"]}

\* the outcomes of generateCnonce: a hex string, or the error of rand.Read
CnonceOutcomes == {[cnonce |-> "a1b2c3d4e5f60718", err |-> FALSE],
                   [cnonce |-> "", err |-> TRUE]}

\* NewDigestClient: nc: 1
NewDigestClient == [pc |-> "idle", nc |-> 1, ops |-> 0, headers |-> <<>>,
                    log |-> <<>>, sent |-> <<>>, params |-> Nil, ncAtGet |-> 1,
                    err |-> ""]

\* the header is built from the count after the increment
ncStrAfterIncrement(d) == Sprintf08x(d.nc + 1)

\* ncStr := fmt.Sprintf("%08x", d.nc)
ncStr(d) == Sprintf08x(d.nc)

\* the Authorization header: its fields, and what the response hash is taken of
AuthHeader(d, uri, params, cnonce) ==
    [username |-> "public-key", realm |-> params.realm, nonce |-> params.nonce,
     uri |-> uri, qop |-> params.qop, nc |-> ncStr(d), cnonce |-> cnonce,
     response |-> <<params.nonce, ncStr(d), cnonce, params.qop>>]

\* d.CreateDigestHeader(method, uri, digestParams): the client afterwards
CreateDigestHeader(d, uri, params, outcome) ==
    IF outcome.err
    THEN [d EXCEPT !.log = Append(@, "cnonce failed")]
    ELSE [d EXCEPT !.headers = Append(@, AuthHeader(d, uri, params, outcome.cnonce)),
                   !.nc = @ + 1,
                   !.log = Append(@, "header")]

\* a caller calls CreateDigestHeader itself
CallCreateDigestHeader(params, outcome) ==
    /\ digestClient.pc = "idle"
    /\ digestClient.ops < MaxGets
    /\ digestClient' =
          [CreateDigestHeader(digestClient, "/clusters", params, outcome)
              EXCEPT !.ops = @ + 1, !.sent = <<>>,
                     !.ncAtGet = digestClient.nc,
                     !.err = IF outcome.err THEN "failed to generate cnonce" ELSE ""]
    /\ UNCHANGED <<runVars, fs, cacheOps, cfgSys, race, gen, listing, selector>>

\* Get up to the answer to the first request
GetFirstRequest(answer) ==
    /\ digestClient.pc = "idle"
    /\ digestClient.ops < MaxGets
    /\ LET d == [digestClient EXCEPT !.ops = @ + 1,
                                     !.ncAtGet = digestClient.nc,
                                     !.sent = <<[Authorization |-> Nil]>>,
                                     !.err = "", !.params = Nil]
       IN  CASE answer.kind = "error" ->
                  digestClient' = [d EXCEPT !.err = "failed to send request",
                                            !.log = Append(@, "first request failed")]
             [] answer.kind = "no header" ->
                  digestClient' = [d EXCEPT !.err = "WWW-Authenticate header not found",
                                            !.log = Append(@, "no header")]
             [] answer.kind = "challenge" ->
                  digestClient' = [d EXCEPT !.pc = "challenged",
                                            !.params = Ptr(answer.params)]
    /\ UNCHANGED <<runVars, fs, cacheOps, cfgSys, race, gen, listing, selector>>

\* Get from ParseDigestHeader to the answer to the second request
GetSecondRequest(outcome, ok) ==
    /\ digestClient.pc = "challenged"
    /\ LET d == CreateDigestHeader(digestClient, "/clusters",
                                   digestClient.params[1], outcome)
       IN  IF outcome.err
           THEN digestClient' = [d EXCEPT !.pc = "idle",
                                          !.err = "failed to create auth header"]
           ELSE digestClient' =
                  [d EXCEPT !.pc = "idle",
                            !.sent = Append(@, [Authorization |->
                                                   Ptr(d.headers[Len(d.headers)])]),
                            !.err = IF ok THEN "" ELSE "failed to send request"]
    /\ UNCHANGED <<runVars, fs, cacheOps, cfgSys, race, gen, listing, selector>>

FirstAnswers == {[kind |-> "error", params |-> Nil], [kind |-> "no header", params |-> Nil]}
                \cup {[kind |-> "challenge", params |-> c] : c \in Challenges}

InitDigest ==
    /\ RunInit
    /\ fs = NoDir
    /\ fsAtStart = fs
    /\ cacheOps = NoCacheOps
    /\ cfgSys = NoCfgSys
    /\ race = NoRace
    /\ gen = NoGen
    /\ listing = NoListing
    /\ selector = NoSelector
    /\ digestClient = NewDigestClient

NextDigest ==
    \/ \E params \in Challenges, outcome \in CnonceOutcomes :
          CallCreateDigestHeader(params, outcome)
    \/ \E answer \in FirstAnswers : GetFirstRequest(answer)
    \/ \E outcome \in CnonceOutcomes, ok \in BOOLEAN : GetSecondRequest(outcome, ok)

SpecDigest == InitDigest /\ [][NextDigest]_vars

(***************************************************************************)
(* Properties                                                              *)
(***************************************************************************)
InWaitForToken == pc \in {"poll", "sleep"}

ReturnedToken == wfResult.returned /\ wfResult.err = ""

\* C1: when CreateToken returns an error that is neither authorization
\* pending nor slow down (expired device code, access denied), WaitForToken
\* has returned with an error: it is not sleeping and polls no more.
C1_TerminalErrorReturnsImmediately ==
    lastResp.err \in TerminalErrs =>
        /\ ~InWaitForToken
        /\ wfResult.returned
        /\ wfResult.err # ""

\* C2: a slow-down response doubles the polling interval before the next
\* sleep, and polling continues: the sleep after it lasts twice the interval
\* the call was made with.
C2_SlowDownDoublesInterval ==
    (lastResp.err = SlowDownErr /\ obs.createToken < maxAttempts) =>
        /\ InWaitForToken
        /\ slept = 2 * prevInterval
        /\ interval = 2 * prevInterval

\* C3: WaitForToken makes at most maxAttempts CreateToken calls, and when
\* every call returned a pending or slow-down exception it returns, after
\* maxAttempts calls, the timeout error and no token.
C3_BoundedAttemptsThenTimeout ==
    /\ obs.createToken <= maxAttempts
    /\ InWaitForToken => i < maxAttempts
    /\ (wfResult.returned /\ obs.onlyRetry) =>
           /\ obs.createToken = maxAttempts
           /\ wfResult.err = TimeoutResult.err
           /\ wfResult.output = NoOutput

C3_Witness ==
    /\ wfResult.returned
    /\ obs.onlyRetry
    /\ obs.createToken = maxAttempts
    /\ wfResult.err = "timeout waiting for authentication"
    /\ lastResp.err = SlowDownErr

\* C4: once the context is cancelled during a sleep, WaitForToken makes no
\* further CreateToken call, and what it returns is the cancellation error.
C4_CancelStopsPolling ==
    obs.cancelledInSleep =>
        /\ ~obs.afterCancel
        /\ wfResult.returned => wfResult.err = "context canceled"

\* C5: an authorization-pending response leaves the interval unchanged: the
\* sleep after it lasts the interval the call was made with, and that is the
\* interval of the next attempt.
C5_PendingKeepsInterval ==
    lastResp.err = PendingErr =>
        /\ slept = prevInterval
        /\ interval = prevInterval

C5_Witness ==
    /\ pc = "poll"
    /\ i >= 2
    /\ lastResp.err = PendingErr
    /\ prevInterval > initialInterval
    /\ slept = prevInterval
    /\ interval = prevInterval

\* C6: WaitForToken returns a token only as the output of a CreateToken call
\* that returned no error; the first such call ends the polling; and no
\* token is returned when every call failed.
C6_SuccessOnlyFromFirstOkCall ==
    /\ ReturnedToken =>
           /\ lastResp.err = NoErr
           /\ wfResult.output = lastResp.output
           /\ wfResult.output \in TokenOutputs
    /\ obs.succeeded > 0 =>
           /\ obs.succeeded = 1
           /\ ReturnedToken
           /\ ~InWaitForToken
    /\ obs.succeeded = 0 => wfResult.output = NoOutput /\ ~ReturnedToken

C6_Witness ==
    /\ ReturnedToken
    /\ obs.createToken >= 3
    /\ obs.succeeded = 1
    /\ wfResult.output.AccessToken = "T1"

\* C7: the first CreateToken call of a login is made with the interval that
\* StartDeviceAuthorization returned for it, or 1 second when it returned none.
C7_IntervalSeededFromBroker ==
    (cmd = "login" /\ pc = "poll" /\ i = 0) =>
        interval = IF deviceAuth.Interval > 0 THEN deviceAuth.Interval
                   ELSE initialInterval

\* C8: within one WaitForToken call the interval never decreases from one
\* attempt to the next, and every call starts with i = 0 and the initial
\* interval, whatever interval the previous call ended with.
C8_IntervalMonotoneAndReset ==
    /\ InWaitForToken => prevInterval <= interval
    /\ (pc = "poll" /\ obs.createToken = 0) =>
           /\ i = 0
           /\ interval = initialInterval

C8_Witness ==
    /\ wfCalls = 2
    /\ pc = "poll"
    /\ obs.createToken = 0
    /\ i = 0
    /\ interval = initialInterval
    /\ lastInterval > 2 * initialInterval

\* C9: when openBrowser fails the login goes on: the URL and the user code
\* are printed and WaitForToken is called.
C9_BrowserFailureNotFatal ==
    browser = "err" =>
        /\ displayed
        /\ wfCalls = 1
        /\ runErr # "get token: failed to open browser"

\* C10: RegisterClient and StartDeviceAuthorization are called at most once
\* in a login; StartDeviceAuthorization only after RegisterClient succeeded,
\* CreateToken only after StartDeviceAuthorization succeeded, saveCacheFile
\* only after WaitForToken returned a token and never before the polling
\* ended; until saveCacheFile runs the cache directory is as it was when the
\* command started.
C10_LoginStepOrder ==
    cmd = "login" =>
        /\ obs.register <= 1
        /\ obs.startAuth <= 1
        /\ obs.startAuth > 0 => obs.register = 1 /\ registerOutput \in RegisterOutputs
        /\ obs.createToken > 0 => obs.startAuth = 1 /\ deviceAuth \in DeviceAuths
        /\ pc = "save" \/ obs.save > 0 =>
               /\ ReturnedToken
               /\ obs.succeeded = 1
               /\ ~InWaitForToken
        /\ obs.save <= 1
        /\ obs.save = 0 => fs = fsAtStart
        /\ (pc = "done" /\ ~ReturnedToken) => fs = fsAtStart /\ obs.save = 0

C10_Witness ==
    /\ cmd = "login"
    /\ pc = "done"
    /\ runErr = ""
    /\ obs.register = 1
    /\ obs.startAuth = 1
    /\ obs.createToken >= 2
    /\ obs.save = 1
    /\ fs # fsAtStart

\* C11: after a successful logout followed by successful saveCacheFile calls
\* the cache directory holds exactly one file for each start URL saved, named
\* sha1hex(startUrl) + ".json", with the entry saved last for that URL.
C11_OneFilePerStartUrl ==
    (cacheOps.purged /\ DOMAIN cacheOps.saved # {}) =>
        /\ DOMAIN fs.files = {generateCacheKey(u) \o ".json" : u \in DOMAIN cacheOps.saved}
        /\ Cardinality(DOMAIN fs.files) = Cardinality(DOMAIN cacheOps.saved)
        /\ \A u \in DOMAIN cacheOps.saved :
               fs.files[generateCacheKey(u) \o ".json"].data = cacheOps.saved[u]

C11_Witness ==
    /\ cacheOps.purged
    /\ cacheOps.op = "save"
    /\ cacheOps.err = ""
    /\ Cardinality(DOMAIN cacheOps.saved) = 2
    /\ Cardinality(DOMAIN fs.files) = 2
    /\ LET name == CacheFileName(StartUrlOf("example")) IN
       /\ name \in DOMAIN cacheOps.before.files
       /\ cacheOps.before.files[name].data # fs.files[name].data
       /\ cacheOps.before.files[name].data \in CacheEntries

\* C12: logout on a missing cache directory returns an error and changes
\* nothing; on an existing directory it succeeds unless a removal fails, in
\* particular on an empty one; after a successful logout the directory is
\* still there and no file is left in it or below it, whoever wrote it.
C12_LogoutRemovesEveryFile ==
    cacheOps.op = "logout" =>
        /\ ~cacheOps.before.exists => cacheOps.err # "" /\ fs = cacheOps.before
        /\ (cacheOps.before.exists /\ DOMAIN cacheOps.before.files = {}) =>
               cacheOps.err = ""
        /\ cacheOps.err = "" =>
               /\ cacheOps.before.exists
               /\ fs.exists
               /\ fs.mode = cacheOps.before.mode
               /\ DOMAIN fs.files = {}

C12_Witness ==
    /\ cacheOps.op = "logout"
    /\ cacheOps.err = ""
    /\ {ForeignFile, NestedFile, CacheFileName(StartUrlOf("corp"))}
           \subseteq DOMAIN cacheOps.before.files
    /\ DOMAIN fs.files = {}

\* C13: after a successful saveCacheFile the cache file has mode 0600 and the
\* cache directory mode 0700, whatever was there before.
C13_SavedWithOwnerOnlyModes ==
    (cacheOps.op = "save" /\ cacheOps.err = "") =>
        /\ fs.mode = DirPerm
        /\ \A u \in DOMAIN cacheOps.saved : fs.files[CacheFileName(u)].mode = FilePerm

(***************************************************************************)
(* Properties of generateConfig and appendProfiles                         *)
(***************************************************************************)
ProfileHeaders == {ProfileHeader(ProfileOf(Accounts[a]).Name) : a \in 1..Len(Accounts)}

\* the positions of the lines of a text that are a profile header
SectionPositions(text) ==
    {k \in 1..Len(text) : text[k] \in ProfileHeaders /\ (k = 1 \/ text[k - 1] = NL)}

\* the profile sections of a text, in order
Sections(text) ==
    LET pos == SectionPositions(text)
    IN [j \in 1..Cardinality(pos) |->
            text[CHOOSE k \in pos : Cardinality({m \in pos : m < k}) = j - 1]]

SectionCount(text, header) == Cardinality({k \in SectionPositions(text) : text[k] = header})

Occurrences(text, header) == Cardinality({k \in 1..Len(text) : text[k] = header})

\* the lines of a text: the pieces between line ends
RECURSIVE Lines(_)
Lines(text) ==
    IF text = <<>> THEN <<>>
    ELSE LET ends == {k \in 1..Len(text) : text[k] = NL}
         IN IF ends = {} THEN <<text>>
            ELSE LET k == CHOOSE e \in ends : \A f \in ends : e <= f
                 IN <<SubSeq(text, 1, k - 1)>> \o Lines(SubSeq(text, k + 1, Len(text)))

NamesDistinct(profiles) ==
    \A j, k \in 1..Len(profiles) : j # k => profiles[j].Name # profiles[k].Name

\* the run has called appendProfiles
Merged(run) == run.pc \in {"write", "writing", "crashed", "done"} /\ run.profiles # <<>>

\* C14: a run whose readAwsConfig failed returns an error and never opens the
\* configuration file for writing
C14_ReadFailureReturnedNotWritten ==
    \A p \in ConfigRuns :
        LET run == cfgSys.procs[p]
        IN run.readErr # "" =>
              /\ run.pc \notin {"writing", "crashed"}
              /\ ~run.wrote
              /\ (run.pc = "done" => run.err # "")

\* C15: when a run follows a finished run with the same selection, both
\* without error, the second leaves the sections of the first, in the same
\* order, and the file has exactly one section for every selected profile
C15_SecondRunAppendsNothing ==
    \A p, q \in ConfigRuns :
        LET first == cfgSys.procs[p]
            second == cfgSys.procs[q]
        IN (/\ p # q
            /\ p \in second.after
            /\ second.pc = "done"
            /\ first.wrote /\ second.wrote
            /\ first.profiles = second.profiles)
           => /\ Sections(second.newConfig) = Sections(first.newConfig)
              /\ \A k \in 1..Len(second.profiles) :
                    SectionCount(cfgSys.file.content,
                                 ProfileHeader(second.profiles[k].Name)) = 1

\* C16: when no profile header occurs twice in the existing text, none occurs
\* twice in the text appendProfiles returns
C16_NoHeaderTwice ==
    \A p \in ConfigRuns :
        LET run == cfgSys.procs[p]
        IN (Merged(run) /\ \A h \in ProfileHeaders : Occurrences(run.existing, h) <= 1)
           => \A h \in ProfileHeaders : Occurrences(run.newConfig, h) <= 1

\* C17: when both runs have written, each having read the file and each with
\* a selection of distinct profile names, every section a run appended is in
\* the file and no section is there twice
C17_NoAppendedSectionLost ==
    (\A p \in ConfigRuns :
        LET run == cfgSys.procs[p]
        IN run.pc = "done" /\ run.wrote /\ run.readErr = "" /\ NamesDistinct(run.profiles))
    => /\ \A p \in ConfigRuns, h \in ProfileHeaders :
            LET run == cfgSys.procs[p]
            IN SectionCount(run.newConfig, h) > SectionCount(run.existing, h)
               => SectionCount(cfgSys.file.content, h) >= 1
       /\ \A h \in ProfileHeaders : SectionCount(cfgSys.file.content, h) <= 1

\* C19: while and after a run that has the file to itself, and has read it,
\* writes it, the file holds the complete old text or the complete merged text
C19_WriteIsAtomic ==
    \A p \in ConfigRuns :
        LET run == cfgSys.procs[p]
        IN (/\ \A q \in ConfigRuns \ {p} : cfgSys.procs[q].pc = "idle"
            /\ run.readErr = ""
            /\ run.pc \in {"writing", "crashed"} \/ run.wrote)
           => cfgSys.file.content \in {run.old, run.newConfig}

\* C20: every line of the existing text is a line of the text appendProfiles
\* returns, unchanged and at the same place, so that whatever is appended
\* comes after all of them
C20_ExistingLinesUnchanged ==
    \A p \in ConfigRuns :
        LET run == cfgSys.procs[p]
            old == Lines(run.existing)
            new == Lines(run.newConfig)
        IN Merged(run) => Len(old) <= Len(new) /\ SubSeq(new, 1, Len(old)) = old

\* C20 as it holds: the existing text without the whitespace at its two ends
\* is the start of the returned text, followed by an empty line when the
\* existing text was not empty, and only rendered sections of the run's
\* profiles follow
C20_TrimmedExistingKept ==
    \A p \in ConfigRuns :
        LET run == cfgSys.procs[p]
            kept == TrimSpace(run.existing)
            sep == IF run.existing = <<>> THEN <<>> ELSE <<NL, NL>>
            head == Len(kept) + Len(sep)
            rest == SubSeq(run.newConfig, head + 1, Len(run.newConfig))
        IN Merged(run) =>
              /\ Len(run.newConfig) >= head
              /\ SubSeq(run.newConfig, 1, head) = kept \o sep
              /\ \A k \in 1..Len(rest) :
                    \/ rest[k] = NL
                    \/ \E j \in 1..Len(run.profiles) :
                          \E m \in DOMAIN RenderProfile(run.profiles[j]) :
                              rest[k] = RenderProfile(run.profiles[j])[m]

C20_Witness ==
    \E p \in ConfigRuns :
        LET run == cfgSys.procs[p]
        IN /\ Merged(run)
           /\ TrimSpace(run.existing) # <<>>
           /\ TrimSpace(run.existing) # run.existing
           /\ Sections(run.newConfig) # Sections(run.existing)

(***************************************************************************)
(* Properties of two concurrent saveCacheFile calls                        *)
(***************************************************************************)
\* C18: after both calls the cache file holds the serialized entry of one of
\* the two calls
C18_LastWriterWins ==
    (\A q \in SaveRuns : race.procs[q].pc = "done")
    => \E q \in SaveRuns : race.content = race.procs[q].jsonData

(***************************************************************************)
(* Properties of the cache entry of a login                                *)
(***************************************************************************)
\* C25: the entry a login builds expires expiresIn seconds after the time of
\* the login and its registration at clientSecretExpiresAt, both as UTC
\* calendar times, and it carries the token and the client id and secret of
\* this login's registration
C25_CacheEntryOfThisLogin ==
    (cmd = "login" /\ pc \in {"save", "done"} /\ cache # NoCache) =>
        /\ cache.ExpiresAt =
              (CASE wfResult.output.ExpiresIn = 3600 -> <<2023, 11, 14, 23, 13, 20>>
                 [] wfResult.output.ExpiresIn = 28800 -> <<2023, 11, 15, 6, 13, 20>>
                 [] OTHER -> <<>>)
        /\ cache.RegistrationExpiresAt =
              (CASE registerOutput.ClientSecretExpiresAt = 1700086400
                        -> <<2023, 11, 15, 22, 13, 20>>
                 [] registerOutput.ClientSecretExpiresAt = 1709251200
                        -> <<2024, 3, 1, 0, 0, 0>>
                 [] OTHER -> <<>>)
        /\ cache.ClientID = registerOutput.ClientId
        /\ cache.ClientSecret = registerOutput.ClientSecret
        /\ cache.AccessToken = wfResult.output.AccessToken
        /\ cache.StartURL = startUrl

C25_Witness ==
    /\ cmd = "login"
    /\ pc = "done"
    /\ runErr = ""
    /\ cache # NoCache
    /\ wfResult.output.ExpiresIn = 28800
    /\ registerOutput.ClientId = "client-2"
    /\ CacheFileName(startUrl) \in DOMAIN fs.files

(***************************************************************************)
(* Properties of the prompts and the account loop of generateConfig        *)
(***************************************************************************)
AllTyped == <<"a", "l", "l">>

DigitChar(d) ==
    CASE d = 1 -> "1" [] d = 2 -> "2" [] d = 3 -> "3" [] d = 4 -> "4" [] d = 5 -> "5"
      [] d = 6 -> "6" [] d = 7 -> "7" [] d = 8 -> "8" [] d = 9 -> "9"

\* "1,2,...,n" for n below ten
RECURSIVE ExplicitAll(_)
ExplicitAll(n) ==
    IF n = 0 THEN <<>>
    ELSE IF n = 1 THEN <<"1">>
    ELSE ExplicitAll(n - 1) \o <<",", DigitChar(n)>>

\* the configuration file and its directory are as they were when the run began
ConfigUntouched ==
    /\ cfgSys.dir = gen.dirAtStart
    /\ cfgSys.file = gen.fileAtStart
    /\ cfgSys.procs[1].pc = "idle"

\* the last prompt read the line the user typed at it
ReadTyped == gen.prompts > 0 /\ gen.fresh

\* the entries of a typed line, without the whitespace around them
TypedEntries(line) ==
    LET entries == Split(line, ",")
    IN [k \in 1..Len(entries) |-> TrimSpace(entries[k])]

EntryValid(entry, n) == ~Atoi(entry).err /\ Atoi(entry).value \in 1..n

\* the entries that are a number of a list of n items, in order
RECURSIVE ValidEntries(_, _)
ValidEntries(entries, n) ==
    IF entries = <<>> THEN <<>>
    ELSE (IF EntryValid(Head(entries), n) THEN <<Head(entries)>> ELSE <<>>)
         \o ValidEntries(Tail(entries), n)

\* the entries that are not empty and not a number of the list, in order
RECURSIVE InvalidEntries(_, _)
InvalidEntries(entries, n) ==
    IF entries = <<>> THEN <<>>
    ELSE (IF Head(entries) # <<>> /\ ~EntryValid(Head(entries), n)
          THEN <<Head(entries)>> ELSE <<>>)
         \o InvalidEntries(Tail(entries), n)

\* C21: when ListAccountRoles has failed for an account the run has returned
\* the error naming that account, has made no further call and has not
\* touched the configuration file
C21_RolesFailureAbortsRun ==
    gen.failed # 0 =>
        /\ gen.pc = "done"
        /\ gen.err = [msg |-> "list account roles for",
                      account |-> gen.accounts[gen.accountsToProcess[gen.failed] + 1].AccountId]
        /\ gen.k = gen.failed
        /\ gen.roleCalls = gen.failed
        /\ ConfigUntouched

C21_Witness ==
    /\ gen.failed = 2
    /\ gen.profiles # <<>>
    /\ gen.pc = "done"
    /\ Len(gen.accountsToProcess) > 2

\* C22: a prompt over n items that read "all" and one that read "1,2,...,n"
\* select the same items in the same order: every index from 0 to n-1
C22_AllIsEveryIndex ==
    (ReadTyped /\ gen.typed \in {AllTyped, ExplicitAll(gen.asked)})
    => gen.selected = [k \in 1..gen.asked |-> k - 1]

C22_Witness ==
    /\ ReadTyped
    /\ gen.typed = AllTyped
    /\ gen.asked = 3
    /\ gen.selected = <<0, 1, 2>>

\* C23: a prompt that read a comma-separated line with an entry that is not
\* a number of the list selects the other, valid entries in the order typed
\* and warns of each invalid one; at the account prompt one valid entry is
\* enough for the run not to end with "no valid accounts selected"
C23_InvalidEntrySkippedOnly ==
    LET entries == TypedEntries(gen.typed)
        valid == ValidEntries(entries, gen.asked)
        invalid == InvalidEntries(entries, gen.asked)
    IN (ReadTyped /\ ToLower(gen.typed) # AllTyped /\ invalid # <<>>)
       => /\ gen.selected = [k \in 1..Len(valid) |-> Atoi(valid[k]).value - 1]
          /\ gen.warnings = invalid
          /\ valid # <<>> => gen.err.msg # "no valid accounts selected"

\* C29: every index a prompt stores is an index of the list it was asked
\* over, and no lookup of an account or a role is out of range
C29_IndicesInRange ==
    /\ gen.pc # "panic"
    /\ \A j \in 1..Len(gen.accountsToProcess) :
          gen.accountsToProcess[j] \in 0..(Len(gen.accounts) - 1)
    /\ gen.prompts > 0 => \A j \in 1..Len(gen.selected) : gen.selected[j] \in 0..(gen.asked - 1)

C29_Witness ==
    /\ ReadTyped
    /\ gen.typed = <<"0", ",", "2">>
    /\ gen.asked = 2
    /\ gen.selected = <<1>>
    /\ gen.pc = "merge"

\* C30: a run that selected no account returns "no valid accounts selected"
\* without a call of ListAccountRoles, one that got no profile from the
\* accounts it selected returns "no roles selected for any accounts", and in
\* both cases the configuration file is as it was, not created and not written
C30_NoProfileNoWrite ==
    /\ (gen.prompts > 0 /\ gen.accountsToProcess = <<>>)
       => /\ gen.pc = "done"
          /\ gen.err.msg = "no valid accounts selected"
          /\ gen.roleCalls = 0
    /\ (gen.pc \in {"merge", "done"} /\ gen.accountsToProcess # <<>>
        /\ gen.profiles = <<>> /\ gen.failed = 0)
       => /\ gen.pc = "done"
          /\ gen.err.msg = "no roles selected for any accounts"
    /\ gen.err.msg \in {"no valid accounts selected", "no roles selected for any accounts"}
       => ConfigUntouched

C30_Witness ==
    /\ gen.err.msg = "no roles selected for any accounts"
    /\ gen.roleCalls >= 2
    /\ gen.prompts >= 2
    /\ ~gen.fileAtStart.exists
    /\ ~cfgSys.file.exists

(***************************************************************************)
(* Properties of the wrappers                                              *)
(***************************************************************************)
\* the concatenation of the account lists of the pages, in page order
RECURSIVE AllPages(_)
AllPages(responses) ==
    IF responses = <<>> THEN <<>>
    ELSE responses[1].o[1].AccountList \o AllPages(Tail(responses))

ListAccountsDone == listing.pc = "done" /\ listing.op = "ListAccounts"

\* C24: ListAccounts calls the directory once per page, passes on each call
\* after the first the continuation token of the page before, stops at the
\* first page without a continuation token and returns the accounts of all
\* pages in page order; when the call of a page fails it returns nil and that
\* error, never the accounts read so far.
C24_ListAccountsFollowsPages ==
    (listing.op = "ListAccounts") =>
        LET calls == listing.calls
            responses == listing.responses
            n == Len(responses)
        IN  /\ Len(calls) = n
            /\ \A page \in 1..n :
                  /\ page > 1 => calls[page] = responses[page - 1].o[1].NextToken
                  /\ page < n => /\ responses[page].err = NoErr
                              /\ responses[page].o[1].NextToken # Nil
            /\ listing.pc = "page" /\ n > 0 =>
                  /\ responses[n].err = NoErr
                  /\ responses[n].o[1].NextToken # Nil
            /\ listing.pc = "done" =>
                  /\ n >= 1
                  /\ responses[n].err = NoErr =>
                        /\ responses[n].o[1].NextToken = Nil
                        /\ listing.result =
                              [o |-> Ptr([AccountList |-> AllPages(responses)]),
                               err |-> NoErr]
                  /\ responses[n].err # NoErr =>
                        listing.result = [o |-> Nil, err |-> responses[n].err]

\* three pages were read, the second through the empty-string token, and the
\* accounts of all three are returned in order
C24_Witness ==
    /\ ListAccountsDone
    /\ Len(listing.calls) = 3
    /\ listing.calls[2] = Ptr("")
    /\ listing.calls[3] = Ptr("page-3")
    /\ listing.result.err = NoErr
    /\ listing.result.o[1].AccountList =
          <<"111111111111", "222222222222", "333333333333", "111111111111">>

SelectorStarted == selector.pc \in {"running", "quit", "done"} /\ selector.m.items # <<>>

LastMsg == selector.msgs[Len(selector.msgs)]

\* C27: started with at least one item and cursor 0, the cursor stays within
\* 0..len(items)-1 under up/down/k/j (up at 0 and down at the last index
\* leave it unchanged); enter sets selected to items[cursor] and quits; q or
\* ctrl+c quits with selected left unset, and Select then returns the error
\* "no item selected".
C27_CursorInRangeAndQuit ==
    SelectorStarted =>
        LET m == selector.m
            before == selector.before
            last == Len(m.items) - 1
        IN  /\ m.cursor \in 0..last
            /\ m.items = before.items
            /\ selector.msgs # <<>> =>
                  /\ LastMsg \in {"up", "k"} =>
                        /\ m.cursor = IF before.cursor = 0 THEN 0 ELSE before.cursor - 1
                        /\ selector.cmd = "nil"
                  /\ LastMsg \in {"down", "j"} =>
                        /\ m.cursor = IF before.cursor = last THEN last
                                      ELSE before.cursor + 1
                        /\ selector.cmd = "nil"
                  /\ LastMsg = "enter" =>
                        /\ m.selected = Ptr(m.items[before.cursor + 1])
                        /\ m.cursor = before.cursor
                        /\ selector.cmd = "tea.Quit"
                        /\ selector.pc \in {"quit", "done"}
                        /\ selector.pc = "done" =>
                              selector.result = [item |-> m.selected, err |-> ""]
                  /\ LastMsg \in {"q", "ctrl+c"} =>
                        /\ m.selected = Nil
                        /\ m.cursor = before.cursor
                        /\ selector.cmd = "tea.Quit"
                        /\ selector.pc \in {"quit", "done"}
                        /\ selector.pc = "done" =>
                              selector.result = [item |-> Nil, err |-> "no item selected"]

\* with two items: down, down again at the last index, q: nothing is selected
C27_Witness ==
    /\ selector.pc = "done"
    /\ Len(selector.m.items) = 2
    /\ selector.msgs = <<"down", "j", "q">>
    /\ selector.m.cursor = 1
    /\ selector.result = [item |-> Nil, err |-> "no item selected"]

(***************************************************************************)
(* Properties of the digest client                                         *)
(***************************************************************************)
\* the number a string of hex digits stands for
RECURSIVE HexValue(_)
HexValue(digits) ==
    IF digits = <<>> THEN 0
    ELSE 16 * HexValue(SubSeq(digits, 1, Len(digits) - 1))
         + (CHOOSE v \in 0..15 : HexChars[v + 1] = digits[Len(digits)])

\* C28: the nonce count of a DigestClient starts at 1 and grows by exactly 1
\* with every successful CreateDigestHeader, whose header carries the count
\* before the increment as 8 hex digits (00000001, 00000002, ...); Get sends
\* the unauthenticated request first, and when the answer has no
\* WWW-Authenticate header it returns an error with no second request sent
\* and the nonce count as it was.
C28_NonceCountAndFirstRequest ==
    digestClient.pc \in {"idle", "challenged"} =>
        /\ digestClient.nc = 1 + Len(digestClient.headers)
        /\ \A h \in DOMAIN digestClient.headers :
              /\ Len(digestClient.headers[h].nc) = 8
              /\ HexValue(digestClient.headers[h].nc) = h
        /\ Len(digestClient.headers) >= 1 =>
              digestClient.headers[1].nc = <<"0", "0", "0", "0", "0", "0", "0", "1">>
        /\ Len(digestClient.headers) >= 2 =>
              digestClient.headers[2].nc = <<"0", "0", "0", "0", "0", "0", "0", "2">>
        /\ digestClient.sent # <<>> => digestClient.sent[1].Authorization = Nil
        /\ digestClient.err = "WWW-Authenticate header not found" =>
              /\ Len(digestClient.sent) = 1
              /\ digestClient.nc = digestClient.ncAtGet
        /\ (/\ digestClient.pc = "idle"
            /\ digestClient.log # <<>>
            /\ digestClient.log[Len(digestClient.log)] = "header")
           => digestClient.nc = digestClient.ncAtGet + 1
        /\ digestClient.err \in {"failed to generate cnonce",
                                 "failed to create auth header"} =>
              digestClient.nc = digestClient.ncAtGet

\* after two headers (nc=00000001 and nc=00000002) a Get is answered without
\* a WWW-Authenticate header
C28_Witness ==
    /\ digestClient.pc = "idle"
    /\ Len(digestClient.headers) = 2
    /\ digestClient.headers[2].nc = <<"0", "0", "0", "0", "0", "0", "0", "2">>
    /\ digestClient.err = "WWW-Authenticate header not found"
    /\ Len(digestClient.sent) = 1
    /\ digestClient.nc = 3

====
